---------------------------- MODULE Spec2Model ----------------------------
(***************************************************************************)
(* Model of the CG Accounts script (main.js v0.6.0 and the PartyLedger     *)
(* renderer): value parsing, header detection, row transformation, ledger  *)
(* classification, party aggregation and statement rendering.              *)
(*                                                                         *)
(* Representation.                                                         *)
(*  - A JavaScript string is a sequence of one-character strings, so that  *)
(*    includes(), trim(), toUpperCase() and replace() are computed.        *)
(*  - A number is a fixed-point integer counting hundredths (500 is 5.00). *)
(*  - A cell or field value is a record [t, s, n]: t is the JavaScript     *)
(*    type ("str", "num", "date", "null"), s the characters of a string,   *)
(*    n the number or the date's time value.                               *)
(***************************************************************************)
EXTENDS Integers, Sequences, FiniteSets, TLC

VARIABLES
    \* determineLedgerCategory: one call and its return value
    cPartyId, cDocType, cTxn, cResult,
    \* transformRow / fetchBankDataAllTabs: one source row and the entry made of it
    tConfig, tSourceType, tHeaders, tRow, tEntry,
    \* detectHeaderRow: one raw table and the detected index
    dSourceType, dData, dResult,
    \* generateAllLedgers: its input, the PartyLedgers, the workbook, the result
    transactions, contacts, ledgers, sheets, index, result,
    \* the CONFIG tab and the source workbooks as a run finds them
    rConfig, rSources,
    \* refreshData: the per-source results, the alert shown, RUN_LOG, runs made
    rResult, rAlert, rLog, rRuns,
    \* one direct call of a fetcher: which one, for which source, what it returned
    fCall, fType, fResult,
    \* parseNumericValue: one cell value, the number it was written for, and
    \* the number returned
    pVal, pMeant, pResult,
    \* createSingleLedger: the party ID entered at the prompt
    sPartyId

classifyVars == <<cPartyId, cDocType, cTxn, cResult>>
transformVars == <<tConfig, tSourceType, tHeaders, tRow, tEntry>>
detectVars == <<dSourceType, dData, dResult>>
genVars == <<transactions, contacts, ledgers, sheets, index, result>>
sourceVars == <<rConfig, rSources>>
refreshVars == <<rResult, rAlert, rLog, rRuns>>
fetchVars == <<fCall, fType, fResult>>
parseVars == <<pVal, pMeant, pResult>>
singleVars == <<sPartyId>>
vars == <<classifyVars, transformVars, detectVars, genVars, sourceVars, refreshVars,
          fetchVars, parseVars, singleVars>>

-----------------------------------------------------------------------------
(* Strings *)

LOWER == <<"a", "b", "c", "d", "e", "f", "g", "h", "i", "j", "k", "l", "m", "n", "o", "p", "q", "r", "s", "t", "u", "v", "w", "x", "y", "z">>
UPPER == <<"A", "B", "C", "D", "E", "F", "G", "H", "I", "J", "K", "L", "M", "N", "O", "P", "Q", "R", "S", "T", "U", "V", "W", "X", "Y", "Z">>
DIGITS == <<"0", "1", "2", "3", "4", "5", "6", "7", "8", "9">>

Range(f) == {f[i] : i \in DOMAIN f}

\* the position of character c in the sequence s (0 when absent)
IndexOf(s, c) == IF c \in Range(s) THEN CHOOSE i \in DOMAIN s : s[i] = c ELSE 0

\* String.prototype.toUpperCase on one character, then on a string
LowerSet == Range(LOWER)
UpperMap == [c \in LowerSet |-> UPPER[IndexOf(LOWER, c)]]
UpperChar(c) == IF c \in LowerSet THEN UpperMap[c] ELSE c
ToUpperCase(s) == [i \in DOMAIN s |-> UpperChar(s[i])]

\* the characters \s matches and trim() strips
IsSpace(c) == c \in {" ", "\t", "\n"}

RECURSIVE TrimLeft(_)
TrimLeft(s) == IF s # <<>> /\ IsSpace(Head(s)) THEN TrimLeft(Tail(s)) ELSE s

RECURSIVE TrimRight(_)
TrimRight(s) ==
    IF s # <<>> /\ IsSpace(s[Len(s)]) THEN TrimRight(SubSeq(s, 1, Len(s) - 1)) ELSE s

\* String.prototype.trim
Trim(s) == TrimRight(TrimLeft(s))

\* s.replace(/[...]/g, '') for the character class drop
RECURSIVE RemoveChars(_, _)
RemoveChars(s, drop) ==
    IF s = <<>> THEN <<>>
    ELSE IF Head(s) \in drop THEN RemoveChars(Tail(s), drop)
    ELSE <<Head(s)>> \o RemoveChars(Tail(s), drop)

\* String.prototype.includes
Includes(s, sub) ==
    \E i \in 1..(Len(s) - Len(sub) + 1) : SubSeq(s, i, i + Len(sub) - 1) = sub

-----------------------------------------------------------------------------
(* Values *)

Str(s) == [t |-> "str", s |-> s, n |-> 0]
Num(n) == [t |-> "num", s |-> <<>>, n |-> n]
DateVal(ms) == [t |-> "date", s |-> <<>>, n |-> ms]
Null == [t |-> "null", s |-> <<>>, n |-> 0]
Empty == Str(<<>>)

\* JavaScript truthiness: null, '' and 0 are falsy
Truthy(v) ==
    CASE v.t = "null" -> FALSE
      [] v.t = "str" -> v.s # <<>>
      [] v.t = "num" -> v.n # 0
      [] OTHER -> TRUE

\* a || b
Or(a, b) == IF Truthy(a) THEN a ELSE b

\* the digits of a natural number, most significant first
RECURSIVE NatToChars(_)
NatToChars(k) ==
    IF k < 10 THEN <<DIGITS[k + 1]>> ELSE NatToChars(k \div 10) \o <<DIGITS[(k % 10) + 1]>>

Abs(k) == IF k < 0 THEN -k ELSE k

\* Number.prototype.toString of a fixed-point number: 500 is "5", 550 is "5.5",
\* 505 is "5.05", -500 is "-5"
NumToChars(k) ==
    LET a == Abs(k)
        whole == NatToChars(a \div 100)
        frac == a % 100
        fracChars == IF frac = 0 THEN <<>>
                     ELSE IF frac % 10 = 0 THEN <<".", DIGITS[(frac \div 10) + 1]>>
                     ELSE <<".", DIGITS[(frac \div 10) + 1], DIGITS[(frac % 10) + 1]>>
    IN (IF k < 0 THEN <<"-">> ELSE <<>>) \o whole \o fracChars

\* String(v). A Date prints as a calendar text; it is kept as "Date:" and the
\* time value, which like the real text is no number and no column name.
ToStr(v) ==
    CASE v.t = "str" -> v.s
      [] v.t = "num" -> NumToChars(v.n)
      [] v.t = "null" -> <<"n", "u", "l", "l">>
      [] OTHER -> <<"D", "a", "t", "e", ":">> \o NatToChars(v.n)

-----------------------------------------------------------------------------
(* ValueParser: src/unnamed/part_006 parseNumericValue, transformRow.parseNum *)

DigitSet == Range(DIGITS)
DigitMap == [c \in DigitSet |-> IndexOf(DIGITS, c) - 1]
IsDigit(c) == c \in DigitSet

\* the longest prefix of s made of digits
RECURSIVE DigitPrefix(_)
DigitPrefix(s) ==
    IF s # <<>> /\ IsDigit(Head(s)) THEN <<Head(s)>> \o DigitPrefix(Tail(s)) ELSE <<>>

RECURSIVE DigitsValue(_)
DigitsValue(ds) ==
    IF ds = <<>> THEN 0
    ELSE DigitsValue(SubSeq(ds, 1, Len(ds) - 1)) * 10 + DigitMap[ds[Len(ds)]]

\* the first two fraction digits as hundredths
Hundredths(fs) ==
    (IF Len(fs) >= 1 THEN DigitMap[fs[1]] * 10 ELSE 0)
    + (IF Len(fs) >= 2 THEN DigitMap[fs[2]] ELSE 0)

\* parseFloat: an optional sign, digits, an optional fraction; the rest of the
\* text is ignored; without any digit the result is NaN. (Exponents and
\* "Infinity" are outside the alphabet of the model.)
ParseFloat(s) ==
    LET t == TrimLeft(s)
        neg == t # <<>> /\ Head(t) = "-"
        body == IF t # <<>> /\ Head(t) \in {"-", "+"} THEN Tail(t) ELSE t
        ip == DigitPrefix(body)
        rest == SubSeq(body, Len(ip) + 1, Len(body))
        fp == IF rest # <<>> /\ Head(rest) = "." THEN DigitPrefix(Tail(rest)) ELSE <<>>
        mag == DigitsValue(ip) * 100 + Hundredths(fp)
    IN IF ip = <<>> /\ fp = <<>> THEN [nan |-> TRUE, v |-> 0]
       ELSE [nan |-> FALSE, v |-> IF neg THEN -mag ELSE mag]

\* the character class of the replace(): rupee sign ("RUPEE"), $, comma, \s
CurrencyChars == {"RUPEE", "$", ",", " ", "\t", "\n"}

\* a plausible slip: the commas stay in the text, so that parseFloat stops at
\* the first of them
parseNumericValue_CommaStops(val) ==
    IF ~Truthy(val) THEN 0
    ELSE IF val.t = "num" THEN val.n
    ELSE LET f == ParseFloat(RemoveChars(ToStr(val), CurrencyChars \ {","}))
         IN IF f.nan \/ f.v = 0 THEN 0 ELSE f.v

\* parseNumericValue(val) and transformRow's parseNum(val): the same body
parseNumericValue(val) ==
    IF ~Truthy(val) THEN 0
    ELSE IF val.t = "num" THEN val.n
    ELSE LET cleaned == RemoveChars(ToStr(val), CurrencyChars)
             f == ParseFloat(cleaned)
         IN IF f.nan \/ f.v = 0 THEN 0 ELSE f.v

-----------------------------------------------------------------------------
(* LedgerClassifier: src/unnamed/part_006 determineLedgerCategory *)

NULL == "null"

TOK_SUP == <<"-", "S", "U", "P", "-">>
TOK_CUS == <<"-", "C", "U", "S", "-">>
TOK_REN == <<"-", "R", "E", "N", "-">>
TOK_DEA == <<"-", "D", "E", "A", "-">>
TOK_CON == <<"-", "C", "O", "N", "-">>
TOK_MAS == <<"-", "M", "A", "S", "-">>

\* plausible slips of the classifier: the party-ID tokens are consulted before
\* the source (PURCHASE, SALES)
determineLedgerCategory_TokensFirst(partyId, docType, txn) ==
    IF Includes(partyId, TOK_SUP) THEN "SU"
    ELSE IF Includes(partyId, TOK_CUS) THEN "CU"
    ELSE IF docType = "PURCHASE" THEN "SU"
    ELSE "CU"

\* -CON- is tested before -SUP-
determineLedgerCategory_ConFirst(partyId, docType, txn) ==
    IF docType = "PURCHASE" THEN "SU"
    ELSE IF docType = "SALES" THEN "CU"
    ELSE IF Includes(partyId, TOK_CON) THEN NULL
    ELSE IF Includes(partyId, TOK_SUP) THEN "SU"
    ELSE IF Includes(partyId, TOK_MAS) /\ txn.credit > 0 THEN "SU"
    ELSE "CU"

\* for a master party the debit is looked at before the credit
determineLedgerCategory_DebitFirst(partyId, docType, txn) ==
    IF docType = "PURCHASE" THEN "SU"
    ELSE IF docType = "SALES" THEN "CU"
    ELSE IF Includes(partyId, TOK_SUP) THEN "SU"
    ELSE IF Includes(partyId, TOK_CUS) \/ Includes(partyId, TOK_REN)
            \/ Includes(partyId, TOK_DEA) THEN "CU"
    ELSE IF Includes(partyId, TOK_CON) THEN NULL
    ELSE IF Includes(partyId, TOK_MAS) /\ txn.debit > 0 THEN "CU"
    ELSE IF Includes(partyId, TOK_MAS) /\ txn.credit > 0 THEN "SU"
    ELSE "CU"

determineLedgerCategory(partyId, docType, txn) ==
    IF docType = "PURCHASE" THEN "SU"
    ELSE IF docType = "SALES" THEN "CU"
    ELSE IF docType = "BANK" THEN
        IF Includes(partyId, TOK_SUP) THEN "SU"
        ELSE IF Includes(partyId, TOK_CUS) \/ Includes(partyId, TOK_REN)
                \/ Includes(partyId, TOK_DEA) THEN "CU"
        ELSE IF Includes(partyId, TOK_CON) THEN NULL
        ELSE IF Includes(partyId, TOK_MAS) /\ txn.credit > 0 THEN "SU"
        ELSE IF Includes(partyId, TOK_MAS) /\ txn.debit > 0 THEN "CU"
        ELSE "CU"
    ELSE "CU"

-----------------------------------------------------------------------------
(* Configuration: src/src/init.js CONFIG defaults, read by Init.readConfig *)

H_LF == <<"L", "/", "F">>
H_DATE == <<"D", "A", "T", "E">>
H_PARTICULARS == <<"P", "A", "R", "T", "I", "C", "U", "L", "A", "R", "S">>
H_DEBIT == <<"D", "E", "B", "I", "T">>
H_CREDIT == <<"C", "R", "E", "D", "I", "T">>
H_BALANCE == <<"B", "A", "L", "A", "N", "C", "E">>
H_SUPPLIER_NAME == <<"S", "U", "P", "P", "L", "I", "E", "R", " ", "N", "A", "M", "E">>
H_CUSTOMER_NAME == <<"C", "U", "S", "T", "O", "M", "E", "R", " ", "N", "A", "M", "E">>
H_INVOICE_NO == <<"I", "N", "V", "O", "I", "C", "E", " ", "N", "O">>
H_INVOICE_NO_DOT == <<"I", "N", "V", "O", "I", "C", "E", " ", "N", "O", ".">>
H_GRAND_TOTAL == <<"G", "R", "A", "N", "D", " ", "T", "O", "T", "A", "L">>
H_INVOICE_DATE == <<"I", "N", "V", "O", "I", "C", "E", " ", "D", "A", "T", "E">>
H_INW_DATE == <<"I", "N", "W", " ", "D", "A", "T", "E">>
H_ACCOUNT == <<"A", "C", "C", "O", "U", "N", "T">>
H_GST_TOTAL == <<"G", "S", "T", " ", "T", "O", "T", "A", "L">>
H_REMARKS == <<"R", "E", "M", "A", "R", "K", "S">>
H_TYPE == <<"T", "Y", "P", "E">>
H_PARTY_NAME == <<"P", "A", "R", "T", "Y", " ", "N", "A", "M", "E">>
H_VOUCHER_TYPE == <<"V", "O", "U", "C", "H", "E", "R", " ", "T", "Y", "P", "E">>
H_REFERENCE == <<"R", "E", "F", "E", "R", "E", "N", "C", "E">>

\* the column-name keys of the CONFIG tab with their default values
DefaultConfig ==
    [PUR_LF_COL |-> Str(H_LF),
     PUR_INWARD_DATE_COL |-> Str(H_INW_DATE),
     PUR_INVOICE_NO_COL |-> Str(H_INVOICE_NO_DOT),
     PUR_INVOICE_DATE_COL |-> Str(H_INVOICE_DATE),
     PUR_ACCOUNT_COL |-> Str(H_ACCOUNT),
     PUR_SUPPLIER_NAME_COL |-> Str(H_SUPPLIER_NAME),
     PUR_GST_TOTAL_COL |-> Str(H_GST_TOTAL),
     PUR_GRAND_TOTAL_COL |-> Str(H_GRAND_TOTAL),
     PUR_REMARKS_COL |-> Str(H_REMARKS),
     SAL_LF_COL |-> Str(H_LF),
     SAL_CUSTOMER_NAME_COL |-> Str(H_CUSTOMER_NAME),
     SAL_INVOICE_NO_COL |-> Str(H_INVOICE_NO_DOT),
     SAL_INVOICE_DATE_COL |-> Str(H_INVOICE_DATE),
     SAL_TYPE_COL |-> Str(H_TYPE),
     SAL_GST_TOTAL_COL |-> Str(H_GST_TOTAL),
     SAL_GRAND_TOTAL_COL |-> Str(H_GRAND_TOTAL),
     SAL_REMARKS_COL |-> Str(H_REMARKS),
     BANK_DATE_COL |-> Str(H_DATE),
     BANK_PARTICULARS_COL |-> Str(H_PARTICULARS),
     BANK_DEBIT_COL |-> Str(H_DEBIT),
     BANK_CREDIT_COL |-> Str(H_CREDIT),
     BANK_LF_COL |-> Str(H_LF),
     BANK_PARTY_NAME_COL |-> Str(H_PARTY_NAME),
     BANK_VOUCHER_TYPE_COL |-> Str(H_VOUCHER_TYPE),
     BANK_REFERENCE_COL |-> Str(H_REFERENCE),
     BANK_REMARKS_COL |-> Str(H_REMARKS)]

-----------------------------------------------------------------------------
(* FieldMapper: src/unnamed/part_006 getColumnMapping, transformRow *)

\* a key the mapping of a source type does not have reads as undefined, which
\* getVal treats like null
getColumnMapping(config, sourceType) ==
    IF sourceType = "PURCHASE" THEN
        [date |-> Or(config.PUR_INVOICE_DATE_COL, config.PUR_INWARD_DATE_COL),
         partyId |-> config.PUR_LF_COL,
         partyName |-> config.PUR_SUPPLIER_NAME_COL,
         invoice |-> config.PUR_INVOICE_NO_COL,
         amount |-> config.PUR_GRAND_TOTAL_COL,
         gst |-> config.PUR_GST_TOTAL_COL,
         particulars |-> config.PUR_ACCOUNT_COL,
         remarks |-> config.PUR_REMARKS_COL,
         debit |-> Null, credit |-> Null, voucherType |-> Null, reference |-> Null]
    ELSE IF sourceType = "SALES" THEN
        [date |-> config.SAL_INVOICE_DATE_COL,
         partyId |-> config.SAL_LF_COL,
         partyName |-> config.SAL_CUSTOMER_NAME_COL,
         invoice |-> config.SAL_INVOICE_NO_COL,
         amount |-> config.SAL_GRAND_TOTAL_COL,
         gst |-> config.SAL_GST_TOTAL_COL,
         particulars |-> config.SAL_TYPE_COL,
         remarks |-> config.SAL_REMARKS_COL,
         debit |-> Null, credit |-> Null, voucherType |-> Null, reference |-> Null]
    ELSE
        [date |-> config.BANK_DATE_COL,
         partyId |-> config.BANK_LF_COL,
         partyName |-> config.BANK_PARTY_NAME_COL,
         invoice |-> Null,
         amount |-> Null,
         gst |-> Null,
         particulars |-> config.BANK_PARTICULARS_COL,
         remarks |-> config.BANK_REMARKS_COL,
         debit |-> config.BANK_DEBIT_COL,
         credit |-> config.BANK_CREDIT_COL,
         voucherType |-> config.BANK_VOUCHER_TYPE_COL,
         reference |-> config.BANK_REFERENCE_COL]

\* headers.findIndex(h => String(h).trim().toUpperCase() === name): 0 when absent
FindHeader(headers, columnName) ==
    LET want == ToUpperCase(Trim(ToStr(columnName)))
        hits == {i \in DOMAIN headers : ToUpperCase(Trim(ToStr(headers[i]))) = want}
    IN IF hits = {} THEN 0 ELSE CHOOSE i \in hits : \A j \in hits : i <= j

\* transformRow's getVal(columnName)
getVal(row, headers, columnName) ==
    IF ~Truthy(columnName) THEN Null
    ELSE LET idx == FindHeader(headers, columnName)
         IN IF idx >= 1 THEN row[idx] ELSE Null

T_PURCHASE_INVOICE == <<"P", "u", "r", "c", "h", "a", "s", "e", " ", "I", "n", "v", "o", "i", "c", "e", ":", " ">>
T_SALES_INVOICE == <<"S", "a", "l", "e", "s", " ", "I", "n", "v", "o", "i", "c", "e", ":", " ">>
T_BANK == <<"B", "A", "N", "K">>
T_PURCHASE == <<"P", "U", "R", "C", "H", "A", "S", "E">>
T_SALES == <<"S", "A", "L", "E", "S">>

\* the text of a source type
SourceTypeChars(sourceType) ==
    CASE sourceType = "PURCHASE" -> T_PURCHASE
      [] sourceType = "SALES" -> T_SALES
      [] OTHER -> T_BANK

\* the entry before the amounts are routed (the object literal of transformRow)
BaseEntry(row, headers, mapping, sourceType) ==
    [date |-> getVal(row, headers, mapping.date),
     partyId |-> ToStr(Or(getVal(row, headers, mapping.partyId), Empty)),
     partyName |-> ToStr(Or(getVal(row, headers, mapping.partyName), Empty)),
     docNo |-> ToStr(Or(Or(getVal(row, headers, mapping.invoice),
                           getVal(row, headers, mapping.reference)), Empty)),
     docType |-> sourceType,
     voucherType |-> ToStr(Or(getVal(row, headers, mapping.voucherType),
                              Str(SourceTypeChars(sourceType)))),
     particulars |-> Str(ToStr(Or(Or(getVal(row, headers, mapping.particulars),
                                     getVal(row, headers, mapping.remarks)), Empty))),
     debit |-> 0,
     credit |-> 0,
     reference |-> ToStr(Or(getVal(row, headers, mapping.reference), Empty))]

\* a plausible slip: the amount of both invoice registers goes to debit
transformRow_AmountToDebit(row, headers, mapping, sourceType) ==
    LET entry == BaseEntry(row, headers, mapping, sourceType)
    IN IF sourceType \in {"PURCHASE", "SALES"}
       THEN [entry EXCEPT !.debit = parseNumericValue(getVal(row, headers, mapping.amount))]
       ELSE [entry EXCEPT
                !.debit = parseNumericValue(getVal(row, headers, mapping.credit)),
                !.credit = parseNumericValue(getVal(row, headers, mapping.debit))]

transformRow(row, headers, mapping, sourceType) ==
    LET entry == BaseEntry(row, headers, mapping, sourceType)
    IN IF sourceType = "PURCHASE" THEN
           [entry EXCEPT
               !.credit = parseNumericValue(getVal(row, headers, mapping.amount)),
               !.particulars = Or(entry.particulars, Str(T_PURCHASE_INVOICE \o entry.docNo))]
       ELSE IF sourceType = "SALES" THEN
           [entry EXCEPT
               !.debit = parseNumericValue(getVal(row, headers, mapping.amount)),
               !.particulars = Or(entry.particulars, Str(T_SALES_INVOICE \o entry.docNo))]
       ELSE IF sourceType = "BANK" THEN
           [entry EXCEPT
               !.debit = parseNumericValue(getVal(row, headers, mapping.debit)),
               !.credit = parseNumericValue(getVal(row, headers, mapping.credit))]
       ELSE entry

\* fetchBankDataAllTabs: the schema of row 5 and the 13 columns read
BANK_SCHEMA_HEADERS == <<H_DATE, H_PARTICULARS, H_DEBIT, H_CREDIT, H_BALANCE, H_LF>>
BankTabWidth == 13

\* the object fetchBankDataAllTabs pushes for one data row of a bank tab
BankTabEntry(row) ==
    [date |-> row[1],
     partyId |-> Trim(ToStr(Or(row[6], Empty))),
     partyName |-> ToStr(Or(row[7], Empty)),
     docNo |-> ToStr(Or(row[10], Empty)),
     docType |-> "BANK",
     voucherType |-> ToStr(Or(row[9], Str(T_BANK))),
     particulars |-> Or(row[2], Empty),
     debit |-> parseNumericValue(row[3]),
     credit |-> parseNumericValue(row[4]),
     reference |-> ToStr(Or(row[10], Empty))]

-----------------------------------------------------------------------------
(* HeaderDetector: src/unnamed/part_006 detectHeaderRow *)

\* keyColumns[sourceType] || ['L/F']
keyColumns(sourceType) ==
    CASE sourceType = "PURCHASE" -> <<H_LF, H_SUPPLIER_NAME, H_INVOICE_NO, H_GRAND_TOTAL>>
      [] sourceType = "SALES" -> <<H_LF, H_CUSTOMER_NAME, H_INVOICE_NO, H_GRAND_TOTAL>>
      [] sourceType = "BANK" -> BANK_SCHEMA_HEADERS
      [] OTHER -> <<H_LF>>

\* const maxRowsToScan = Math.min(allData.length, 10)
ScanLimit == 10
maxRowsToScan(allData) == IF Len(allData) < ScanLimit THEN Len(allData) ELSE ScanLimit

\* the characters of the class [.\s]
DotOrSpace == {".", " ", "\t", "\n"}

\* row.map(cell => String(cell).trim().toUpperCase())
RowHeaders(row) == [i \in DOMAIN row |-> ToUpperCase(Trim(ToStr(row[i])))]

\* rowHeaders.some(h => h === colUpper || h.replace(..) === colUpper.replace(..))
ColumnFound(rowHeaders, col) ==
    LET colUpper == ToUpperCase(col)
    IN \E i \in DOMAIN rowHeaders :
          \/ rowHeaders[i] = colUpper
          \/ RemoveChars(rowHeaders[i], DotOrSpace) = RemoveChars(colUpper, DotOrSpace)

\* the loop over columnsToFind: matchCount and hasLF of one row
RowMatch(row, columnsToFind) ==
    LET rowHeaders == RowHeaders(row)
        found == {k \in DOMAIN columnsToFind : ColumnFound(rowHeaders, columnsToFind[k])}
    IN [matchCount |-> Cardinality(found),
        hasLF |-> \E k \in found : ToUpperCase(columnsToFind[k]) = H_LF]

\* a plausible slip: any two key columns are enough
RowAccepted_AnyTwo(row, columnsToFind) ==
    RowMatch(row, columnsToFind).matchCount >= 2

\* if ((hasLF && matchCount >= 2) || matchCount >= 3)
RowAccepted(row, columnsToFind) ==
    LET m == RowMatch(row, columnsToFind)
    IN (m.hasLF /\ m.matchCount >= 2) \/ m.matchCount >= 3

\* the first loop from row i (1-based) on: the first accepted row, 0 when none
RECURSIVE FirstAccepted(_, _, _, _)
FirstAccepted(allData, columnsToFind, i, last) ==
    IF i > last THEN 0
    ELSE IF RowAccepted(allData[i], columnsToFind) THEN i
    ELSE FirstAccepted(allData, columnsToFind, i + 1, last)

\* a plausible slip: the fallback compares as the first loop does, dots and
\* white space ignored
RECURSIVE FirstWithLF_Loose(_, _, _)
FirstWithLF_Loose(allData, i, last) ==
    IF i > last THEN 0
    ELSE IF ColumnFound(RowHeaders(allData[i]), H_LF) THEN i
    ELSE FirstWithLF_Loose(allData, i + 1, last)

\* the fallback loop: the first row with a cell that reads exactly L/F
RECURSIVE FirstWithLF(_, _, _)
FirstWithLF(allData, i, last) ==
    IF i > last THEN 0
    ELSE IF \E j \in DOMAIN allData[i] : ToUpperCase(Trim(ToStr(allData[i][j]))) = H_LF THEN i
    ELSE FirstWithLF(allData, i + 1, last)

\* the 0-based row index, or -1
detectHeaderRow(allData, sourceType) ==
    LET last == maxRowsToScan(allData)
        a == FirstAccepted(allData, keyColumns(sourceType), 1, last)
        b == FirstWithLF(allData, 1, last)
    IN IF a > 0 THEN a - 1
       ELSE IF b > 0 THEN b - 1
       ELSE -1

-----------------------------------------------------------------------------
(* SourceFetcher: src/unnamed/part_006 fetchSourceData, fetchBankDataAllTabs *)

\* A source workbook as a run finds it: open says whether openById succeeds,
\* tab whether the configured tab exists, allData is that tab's data range;
\* tabs are the worksheets of the bank workbook, each with readable (its ranges
\* can be read), row5 and the rows from row 6 down to the last row with content

E_NOT_CONFIGURED == "Not configured"
E_NO_ACCESS == "You do not have permission to access the requested document."
E_TAB_NOT_FOUND == "Tab not found in source sheet"
E_NO_HEADER == "Could not detect header row. Looking for \"L/F\" column."

\* const result = { data: [], rows: 0, status: 'pending', error: null }
FetchBlank == [data |-> <<>>, rows |-> 0, status |-> "pending", error |-> NULL]

\* config[sourceType + '_SHEET_ID']
SheetIdOf(config, sourceType) ==
    CASE sourceType = "PURCHASE" -> config.PURCHASE_SHEET_ID
      [] sourceType = "SALES" -> config.SALES_SHEET_ID
      [] OTHER -> config.BANK_SHEET_ID

\* row.some(cell => cell !== '')
HasNonEmptyCell(row) == \E i \in DOMAIN row : row[i] # Empty

\* a plausible slip: the catch block sets the status and loses the message
ErrorResult_NoMessage(message) == [FetchBlank EXCEPT !.status = "ERROR"]

\* the catch block of fetchSourceData: nothing was stored in result.data yet
ErrorResult(message) == [FetchBlank EXCEPT !.status = "ERROR", !.error = message]

\* rows.filter(...).map(row => transformRow(row, headers, mapping, sourceType))
TransformRows(allData, headerRow, mapping, sourceType) ==
    CHOOSE data \in
        {[i \in DOMAIN rows |-> transformRow(rows[i], allData[headerRow + 1], mapping,
                                             sourceType)] :
            rows \in {SelectSeq(SubSeq(allData, headerRow + 2, Len(allData)),
                                HasNonEmptyCell)}} : TRUE

\* fetchSourceData(config, sourceType) against the workbooks of sources
fetchSourceData(config, sources, sourceType) ==
    IF ~Truthy(SheetIdOf(config, sourceType))
    THEN [FetchBlank EXCEPT !.status = "SKIPPED", !.error = E_NOT_CONFIGURED]
    ELSE IF ~sources[sourceType].open THEN ErrorResult(E_NO_ACCESS)
    ELSE IF ~sources[sourceType].tab THEN ErrorResult(E_TAB_NOT_FOUND)
    ELSE IF Len(sources[sourceType].allData) < 2
    THEN [FetchBlank EXCEPT !.status = "SUCCESS"]
    ELSE CHOOSE r \in
        {IF headerRow = -1 THEN ErrorResult(E_NO_HEADER)
         ELSE CHOOSE ok \in
                {[data |-> data, rows |-> Len(data), status |-> "SUCCESS", error |-> NULL] :
                    data \in {TransformRows(sources[sourceType].allData, headerRow,
                                            getColumnMapping(config, sourceType),
                                            sourceType)}} : TRUE :
            headerRow \in {detectHeaderRow(sources[sourceType].allData, sourceType)}} : TRUE

\* BANK_SCHEMA_HEADERS.every((h, i) => headers[i] === h) on row 5 of a tab
BankTabMatches(row5) ==
    \A i \in DOMAIN BANK_SCHEMA_HEADERS :
        ToUpperCase(Trim(ToStr(row5[i]))) = BANK_SCHEMA_HEADERS[i]

\* if (!row[0]) continue
BankRowTaken(row) == Truthy(row[1])

\* what one worksheet of the bank workbook adds: nothing when reading it throws,
\* when row 5 is not the schema, or when there is no row below row 5
BankTabEntries(tab) ==
    IF ~tab.readable THEN <<>>
    ELSE IF ~BankTabMatches(tab.row5) THEN <<>>
    ELSE IF tab.data = <<>> THEN <<>>
    ELSE CHOOSE es \in {[i \in DOMAIN rows |-> BankTabEntry(rows[i])] :
                           rows \in {SelectSeq(tab.data, BankRowTaken)}} : TRUE

RECURSIVE BankTabsEntries(_)
BankTabsEntries(tabs) ==
    IF tabs = <<>> THEN <<>>
    ELSE BankTabEntries(Head(tabs)) \o BankTabsEntries(Tail(tabs))

\* fetchBankDataAllTabs(config): both catch blocks end in the same return
fetchBankDataAllTabs(config, sources) ==
    IF ~Truthy(config.BANK_SHEET_ID) THEN <<>>
    ELSE IF ~sources.BANK.open THEN <<>>
    ELSE BankTabsEntries(sources.BANK.tabs)

-----------------------------------------------------------------------------
(* ContactDirectory: src/unnamed/part_006 fetchAllContacts *)

H_SL == <<"S", "L">>
H_COMPANY_NAME == <<"C", "O", "M", "P", "A", "N", "Y", " ", "N", "A", "M", "E">>
H_ADDRESS_LINE_1 == <<"A", "D", "D", "R", "E", "S", "S", " ", "L", "I", "N", "E", " ", "1">>
H_DISTRICT == <<"D", "I", "S", "T", "R", "I", "C", "T">>
H_STATE == <<"S", "T", "A", "T", "E">>
H_PIN_CODE == <<"P", "I", "N", " ", "C", "O", "D", "E">>
H_GST == <<"G", "S", "T">>
H_MOBILE_NO == <<"M", "O", "B", "I", "L", "E", " ", "N", "O">>
H_EMAIL_ID == <<"E", "M", "A", "I", "L", " ", "I", "D">>

\* row[headers.indexOf(name)] on the trimmed, uppercased first row; undefined
\* when there is no such column
ContactCell(row, headers, name) ==
    LET hits == {i \in DOMAIN headers : ToUpperCase(Trim(ToStr(headers[i]))) = name}
    IN IF hits = {} THEN Null ELSE row[CHOOSE i \in hits : \A j \in hits : i <= j]

\* row[colIdx.x] || '': the cells of the model's sheets are texts
ContactText(row, headers, name) == ToStr(Or(ContactCell(row, headers, name), Empty))

\* [district, state, pin].filter(x => x).join(', ')
RECURSIVE JoinTruthy(_)
JoinTruthy(texts) ==
    IF texts = <<>> THEN <<>>
    ELSE IF Head(texts) = <<>> THEN JoinTruthy(Tail(texts))
    ELSE CHOOSE r \in {IF rest = <<>> THEN Head(texts) ELSE Head(texts) \o <<",", " ">> \o rest :
                          rest \in {JoinTruthy(Tail(texts))}} : TRUE

\* String(row[colIdx.sl] || '').trim().toUpperCase()
ContactId(row, headers) == ToUpperCase(Trim(ContactText(row, headers, H_SL)))

\* the fields of a contact object that generateAllLedgers reads
ContactRecord(row, headers) ==
    [name |-> ContactText(row, headers, H_COMPANY_NAME),
     address1 |-> ContactText(row, headers, H_ADDRESS_LINE_1),
     address2 |-> JoinTruthy(<<ContactText(row, headers, H_DISTRICT),
                               ContactText(row, headers, H_STATE),
                               ContactText(row, headers, H_PIN_CODE)>>),
     gst |-> ContactText(row, headers, H_GST),
     phone |-> ContactText(row, headers, H_MOBILE_NO),
     email |-> ContactText(row, headers, H_EMAIL_ID)]

\* the loop over the rows: a row without SL is passed over, a later row of one
\* party ID replaces an earlier one
RECURSIVE ContactMap(_, _)
ContactMap(rows, headers) ==
    IF rows = <<>> THEN <<>>
    ELSE (IF ContactId(rows[Len(rows)], headers) = <<>> THEN <<>>
          ELSE ContactId(rows[Len(rows)], headers) :> ContactRecord(rows[Len(rows)], headers))
         @@ ContactMap(SubSeq(rows, 1, Len(rows) - 1), headers)

\* fetchAllContacts(config) against the contacts workbook: {} when it is not
\* configured, cannot be opened, lacks the tab or holds no row under the header
fetchAllContacts(config, book) ==
    IF ~Truthy(config.CONTACTS_SHEET_ID) THEN <<>>
    ELSE IF ~book.open THEN <<>>
    ELSE IF ~book.tab THEN <<>>
    ELSE IF Len(book.allData) < 2 THEN <<>>
    ELSE ContactMap(Tail(book.allData), book.allData[1])

-----------------------------------------------------------------------------
(* Sorting: Array.prototype.sort is stable *)

\* where x goes in a sorted list: behind the last element that does not compare
\* greater than it; cmp[i] is the comparator's result for (sorted[i], x)
RECURSIVE InsertAt(_, _)
InsertAt(cmp, n) ==
    IF n = 0 THEN 0
    ELSE IF cmp[n] > 0 THEN InsertAt(cmp, n - 1) ELSE n

InsertInto(sorted, x, k) ==
    SubSeq(sorted, 1, k) \o <<x>> \o SubSeq(sorted, k + 1, Len(sorted))

-----------------------------------------------------------------------------
(* PartyAggregator: src/unnamed/part_006 generateAllLedgers *)

\* parseFloat(x) || 0 of a number x: the number is printed and read back
ParseFloatOrZero(x) ==
    LET f == ParseFloat(NumToChars(x))
    IN IF f.nan \/ f.v = 0 THEN 0 ELSE f.v

\* the time value a date field sorts by: a Date's own, new Date(0) for a missing
\* one, new Date(n) for a number, NaN for a text that is no date (the texts of
\* the model are none)
DateKey(d) ==
    CASE d.t = "date" -> [nan |-> FALSE, v |-> d.n]
      [] ~Truthy(d) -> [nan |-> FALSE, v |-> 0]
      [] d.t = "num" -> [nan |-> FALSE, v |-> d.n]
      [] OTHER -> [nan |-> TRUE, v |-> 0]

\* (a, b) => dateA - dateB; a NaN difference counts as 0
CompareByDate(a, b) ==
    LET ka == DateKey(a.date)
        kb == DateKey(b.date)
    IN IF ka.nan \/ kb.nan THEN 0 ELSE ka.v - kb.v

\* txn.date > lastTransaction, both converted to numbers; false on NaN
DateGreater(d, last) ==
    LET kd == DateKey(d)
        kl == DateKey(last)
    IN ~kd.nan /\ ~kl.nan /\ kd.v > kl.v

CategoryChars(cat) == IF cat = "SU" THEN <<"S", "U">> ELSE <<"C", "U">>

\* partyIdUpper + '|' + ledgerCategory
LedgerKey(partyIdUpper, cat) == partyIdUpper \o <<"|">> \o CategoryChars(cat)

\* the object stored under a new key of ledgerMap
NewLedger(partyIdUpper, cat, txn) ==
    [key |-> LedgerKey(partyIdUpper, cat),
     id |-> partyIdUpper,
     name |-> txn.partyName,
     ledgerCategory |-> cat,
     type |-> IF cat = "SU" THEN "SUPPLIER" ELSE "CUSTOMER",
     transactions |-> <<>>,
     totalDebit |-> 0,
     totalCredit |-> 0,
     lastTransaction |-> Null,
     address1 |-> <<>>, address2 |-> <<>>, gst |-> <<>>, phone |-> <<>>, email |-> <<>>]

\* a plausible slip: the credit is added to both totals
AddToLedger_CreditTwice(ledger, txn) ==
    [ledger EXCEPT
        !.transactions = Append(@, txn),
        !.totalDebit = @ + ParseFloatOrZero(txn.credit),
        !.totalCredit = @ + ParseFloatOrZero(txn.credit)]

\* push the transaction, add to the totals, keep the latest date
AddToLedger(ledger, txn) ==
    [ledger EXCEPT
        !.transactions = Append(@, txn),
        !.totalDebit = @ + ParseFloatOrZero(txn.debit),
        !.totalCredit = @ + ParseFloatOrZero(txn.credit),
        !.lastTransaction = IF ~Truthy(@) \/ DateGreater(txn.date, @) THEN txn.date ELSE @]

\* a plausible slip: the ledgers are keyed by the party ID alone, the category
\* being that of the party's first transaction
GroupKeyOf_IdOnly(partyIdUpper, cat, map) ==
    IF \E i \in DOMAIN map : map[i].id = partyIdUpper
    THEN (CHOOSE l \in Range(map) : l.id = partyIdUpper).key
    ELSE LedgerKey(partyIdUpper, cat)

\* the key a transaction is filed under
GroupKeyOf(partyIdUpper, cat, map) == LedgerKey(partyIdUpper, cat)

\* a plausible slip: a null category is filed with the customers
CategoryOrSkip_NullAsCustomer(cat) == IF cat = NULL THEN "CU" ELSE cat

\* if (!ledgerCategory) continue
CategoryOrSkip(cat) == cat

\* one turn of the grouping loop; the map keeps its keys in insertion order
GroupStep(map, txn) ==
    IF txn.partyId = <<>> THEN map
    ELSE LET partyIdUpper == ToUpperCase(txn.partyId)
             cat == CategoryOrSkip(determineLedgerCategory(partyIdUpper, txn.docType, txn))
         IN IF cat = NULL THEN map
            ELSE LET key == GroupKeyOf(partyIdUpper, cat, map)
                     at == {i \in DOMAIN map : map[i].key = key}
                 IN IF at = {}
                    THEN Append(map, AddToLedger(NewLedger(partyIdUpper, cat, txn), txn))
                    ELSE [i \in DOMAIN map |->
                             IF i \in at THEN AddToLedger(map[i], txn) ELSE map[i]]

\* for (const txn of transactions) { ... }; Object.values(ledgerMap)
RECURSIVE GroupAll(_)
GroupAll(txns) ==
    IF txns = <<>> THEN <<>>
    ELSE CHOOSE after \in {GroupStep(map, txns[Len(txns)]) :
                               map \in {GroupAll(SubSeq(txns, 1, Len(txns) - 1))}} : TRUE

\* a || b on texts
OrChars(a, b) == IF a # <<>> THEN a ELSE b

\* a plausible slip: the directory only fills what the transactions left blank
Enrich_FillBlanksOnly(ledger, allContacts) ==
    IF ledger.id \in DOMAIN allContacts
    THEN [ledger EXCEPT
            !.name = OrChars(@, allContacts[ledger.id].name),
            !.address1 = OrChars(@, allContacts[ledger.id].address1),
            !.address2 = OrChars(@, allContacts[ledger.id].address2),
            !.gst = OrChars(@, allContacts[ledger.id].gst),
            !.phone = OrChars(@, allContacts[ledger.id].phone),
            !.email = OrChars(@, allContacts[ledger.id].email)]
    ELSE ledger

\* the enrichment loop: the directory record of ledger.id, when there is one
Enrich(ledger, allContacts) ==
    IF ledger.id \in DOMAIN allContacts
    THEN LET c == allContacts[ledger.id]
         IN [ledger EXCEPT
                !.name = OrChars(c.name, @),
                !.address1 = c.address1,
                !.address2 = c.address2,
                !.gst = c.gst,
                !.phone = c.phone,
                !.email = c.email]
    ELSE ledger

InsertByDate(sorted, x) ==
    InsertInto(sorted, x,
               InsertAt([i \in DOMAIN sorted |-> CompareByDate(sorted[i], x)], Len(sorted)))

RECURSIVE SortByDate(_)
SortByDate(txns) ==
    IF txns = <<>> THEN <<>>
    ELSE CHOOSE after \in {InsertByDate(sorted, txns[Len(txns)]) :
                               sorted \in {SortByDate(SubSeq(txns, 1, Len(txns) - 1))}} : TRUE

\* ledger.transactions.sort(...) before the ledger is rendered
SortLedger(ledger) ==
    [ledger EXCEPT !.transactions = SortByDate(@)]

-----------------------------------------------------------------------------
(* LedgerRenderer: src/SETUP.md PartyLedger *)

\* a worksheet is the rows that hold a value, each seven cells wide, and the
\* number of rows it has; a cell outside rows is blank
BlankRow7 == <<Empty, Empty, Empty, Empty, Empty, Empty, Empty>>
Cell(sheet, r, c) == IF r \in DOMAIN sheet.rows THEN sheet.rows[r][c] ELSE Empty

\* [/\?*\[\]:]
SheetNameForbidden == {"/", "\\", "?", "*", "[", "]", ":"}

RECURSIVE ReplaceChars(_, _, _)
ReplaceChars(s, set, by) ==
    IF s = <<>> THEN <<>>
    ELSE <<IF s[1] \in set THEN by ELSE s[1]>> \o ReplaceChars(Tail(s), set, by)

T_UNKNOWN == <<"U", "n", "k", "n", "o", "w", "n">>

\* '[' + (ledgerCategory || 'CU') + '] ' + sanitised, trimmed party ID
buildSheetName(partyId, ledgerCategory) ==
    <<"[">> \o CategoryChars(ledgerCategory) \o <<"]", " ">>
        \o Trim(ReplaceChars(OrChars(partyId, T_UNKNOWN), SheetNameForbidden, "-"))

T_SUPPLIER_LEDGER == <<"S", "U", "P", "P", "L", "I", "E", "R", " ", "L", "E", "D", "G", "E", "R">>
T_CUSTOMER_LEDGER == <<"C", "U", "S", "T", "O", "M", "E", "R", " ", "L", "E", "D", "G", "E", "R">>
T_TOTAL == <<"T", "O", "T", "A", "L">>
T_CLOSING_BALANCE == <<"C", "L", "O", "S", "I", "N", "G", " ", "B", "A", "L", "A", "N", "C", "E">>
T_GRAND_TOTAL == <<"G", "R", "A", "N", "D", " ", "T", "O", "T", "A", "L">>
T_DR == <<"D", "R">>
T_CR == <<"C", "R">>
T_SEP == <<" ", "|", " ">>

\* parts.join(' | ') of the non-empty ones of gst, phone, email
buildContactInfo(gst, phone, email) ==
    LET ge == gst
        pe == IF phone = <<>> THEN <<>>
              ELSE (IF ge = <<>> THEN <<>> ELSE T_SEP) \o phone
        ee == IF email = <<>> THEN <<>>
              ELSE (IF ge \o pe = <<>> THEN <<>> ELSE T_SEP) \o email
    IN ge \o pe \o ee

\* rows 1 to 13: ledger type and IDs, company block, party block, legend
HeaderRows(party, company, ledgerCategory) ==
    LET merged(text) == [BlankRow7 EXCEPT ![1] = Str(text)]
    IN [r \in {1, 2, 3, 4, 5, 7, 8, 9, 10, 13} |->
          CASE r = 1 -> [BlankRow7 EXCEPT
                            ![1] = Str(IF ledgerCategory = "SU" THEN T_SUPPLIER_LEDGER
                                       ELSE T_CUSTOMER_LEDGER),
                            ![6] = Str(party.id),
                            ![7] = Str(company.id)]
            [] r = 2 -> merged(ToUpperCase(company.name))
            [] r = 3 -> merged(company.address1)
            [] r = 4 -> merged(company.address2)
            [] r = 5 -> merged(buildContactInfo(company.gst, company.phone, company.email))
            [] r = 7 -> merged(ToUpperCase(party.name))
            [] r = 8 -> merged(party.address1)
            [] r = 9 -> merged(party.address2)
            [] r = 10 -> merged(buildContactInfo(party.gst, party.phone, party.email))
            [] OTHER -> <<Str(H_DATE), Str(H_PARTICULARS), Str(H_VOUCHER_TYPE),
                          Str(<<"R", "E", "F">>), Str(H_DEBIT), Str(H_CREDIT), Empty>>]

startRow == 14
minRows == 10
Max(a, b) == IF a >= b THEN a ELSE b

\* x || '' of an amount
AmountCell(x) == IF x = 0 THEN Empty ELSE Num(x)

\* the seven cells of one transaction row
DataRowOf(txn) ==
    <<Or(txn.date, Empty),
      Or(txn.particulars, Empty),
      Str(OrChars(txn.voucherType, SourceTypeChars(txn.docType))),
      Str(OrChars(txn.reference, txn.docNo)),
      AmountCell(txn.debit),
      AmountCell(txn.credit),
      Empty>>

\* writeTransactions: the rows written from row 14 on, and the last row of the
\* section
TransactionRows(txns) ==
    [r \in startRow..(startRow + Len(txns) - 1) |-> DataRowOf(txns[r - startRow + 1])]

\* a plausible slip: the section ends with the last transaction, without the
\* minimum of ten rows
TransactionEndRow_NoMinimum(txns) == startRow + Len(txns) - 1

\* return startRow + actualRows - 1
TransactionEndRow(txns) == startRow + Max(Len(txns), minRows) - 1

RECURSIVE SumDebit(_)
SumDebit(txns) ==
    IF txns = <<>> THEN 0
    ELSE SumDebit(SubSeq(txns, 1, Len(txns) - 1)) + ParseFloatOrZero(txns[Len(txns)].debit)

RECURSIVE SumCredit(_)
SumCredit(txns) ==
    IF txns = <<>> THEN 0
    ELSE SumCredit(SubSeq(txns, 1, Len(txns) - 1)) + ParseFloatOrZero(txns[Len(txns)].credit)

\* a plausible slip: a zero balance is shown on the credit side
ClosingRowCells_ZeroAsCredit(closingBalance) ==
    IF closingBalance > 0
    THEN [BlankRow7 EXCEPT ![2] = Str(T_CLOSING_BALANCE),
                           ![5] = Num(Abs(closingBalance)), ![7] = Str(T_DR)]
    ELSE [BlankRow7 EXCEPT ![2] = Str(T_CLOSING_BALANCE),
                           ![6] = Num(Abs(closingBalance)), ![7] = Str(T_CR)]

\* the CLOSING BALANCE row: the magnitude on the side of the sign
ClosingRowCells(closingBalance) ==
    IF closingBalance >= 0
    THEN [BlankRow7 EXCEPT ![2] = Str(T_CLOSING_BALANCE),
                           ![5] = Num(Abs(closingBalance)), ![7] = Str(T_DR)]
    ELSE [BlankRow7 EXCEPT ![2] = Str(T_CLOSING_BALANCE),
                           ![6] = Num(Abs(closingBalance)), ![7] = Str(T_CR)]

\* a plausible slip: the grand total is the sum of the two totals
GrandTotalOf_Sum(totalDebit, totalCredit) == totalDebit + totalCredit

\* Math.max(totalDebit, totalCredit)
GrandTotalOf(totalDebit, totalCredit) == Max(totalDebit, totalCredit)

\* the TOTAL row
TotalRowCells(totalDebit, totalCredit) ==
    [BlankRow7 EXCEPT ![2] = Str(T_TOTAL), ![5] = Num(totalDebit), ![6] = Num(totalCredit)]

\* writeTotalsSection: two blank rows, then TOTAL, CLOSING BALANCE, GRAND TOTAL
TotalsRows(txns, lastTransactionRow) ==
    LET totalDebit == SumDebit(txns)
        totalCredit == SumCredit(txns)
        closingBalance == totalDebit - totalCredit
        totalRow == lastTransactionRow + 3
        closingRow == totalRow + 1
        grandTotalRow == closingRow + 1
        maxTotal == GrandTotalOf(totalDebit, totalCredit)
    IN (totalRow :> TotalRowCells(totalDebit, totalCredit))
       @@ (closingRow :> ClosingRowCells(closingBalance))
       @@ (grandTotalRow :> [BlankRow7 EXCEPT ![2] = Str(T_GRAND_TOTAL),
                                              ![5] = Num(maxTotal), ![6] = Num(maxTotal)])

GrandTotalRow(txns) == TransactionEndRow(txns) + 5

\* createPartyLedger: the worksheet is created or cleared, written top to
\* bottom and cut behind the GRAND TOTAL row
createPartyLedger(party, company, txns, ledgerCategory) ==
    [sheetName |-> buildSheetName(party.id, ledgerCategory),
     rows |-> HeaderRows(party, company, ledgerCategory)
              @@ TransactionRows(txns)
              @@ TotalsRows(txns, TransactionEndRow(txns)),
     maxRows |-> GrandTotalRow(txns),
        rowCount |-> Len(txns),
        ledgerCategory |-> ledgerCategory]

\* String.prototype.localeCompare in the root collation: letters compare
\* without case first and sort behind digits, digits behind the other signs;
\* texts equal that way are ordered lower case first
CollationRank(c) ==
    IF c \in LowerSet THEN 100 + IndexOf(LOWER, c)
    ELSE IF c \in Range(UPPER) THEN 100 + IndexOf(UPPER, c)
    ELSE IF c \in DigitSet THEN 50 + DigitMap[c]
    ELSE 0

RECURSIVE ComparePrimary(_, _)
ComparePrimary(a, b) ==
    IF a = <<>> /\ b = <<>> THEN 0
    ELSE IF a = <<>> THEN -1
    ELSE IF b = <<>> THEN 1
    ELSE IF CollationRank(a[1]) # CollationRank(b[1])
         THEN (IF CollationRank(a[1]) < CollationRank(b[1]) THEN -1 ELSE 1)
         ELSE ComparePrimary(Tail(a), Tail(b))

RECURSIVE CompareCase(_, _)
CompareCase(a, b) ==
    IF a = <<>> \/ b = <<>> THEN 0
    ELSE IF a[1] = b[1] THEN CompareCase(Tail(a), Tail(b))
    ELSE IF a[1] \in LowerSet THEN -1 ELSE 1

localeCompare(a, b) ==
    LET p == ComparePrimary(a, b)
    IN IF p # 0 THEN p ELSE CompareCase(a, b)

\* a plausible slip: the index is ordered by name alone
CompareForIndex_NameOnly(a, b) == localeCompare(a.name, b.name)

\* the comparator of the index: SU before CU, then by name
CompareForIndex(a, b) ==
    IF a.ledgerCategory # b.ledgerCategory
    THEN (IF a.ledgerCategory = "SU" THEN -1 ELSE 1)
    ELSE localeCompare(a.name, b.name)

InsertForIndex(sorted, x) ==
    InsertInto(sorted, x,
               InsertAt([i \in DOMAIN sorted |-> CompareForIndex(sorted[i], x)], Len(sorted)))

RECURSIVE SortForIndex(_)
SortForIndex(ls) ==
    IF ls = <<>> THEN <<>>
    ELSE CHOOSE after \in {InsertForIndex(sorted, ls[Len(ls)]) :
                               sorted \in {SortForIndex(SubSeq(ls, 1, Len(ls) - 1))}} : TRUE

\* one row of the index; the link is kept as the worksheet it opens
IndexRow(ledger, ss) ==
    LET sheetName == buildSheetName(ledger.id, ledger.ledgerCategory)
    IN [id |-> ledger.id,
        name |-> ledger.name,
        category |-> <<"[">> \o CategoryChars(ledger.ledgerCategory) \o <<"]">>,
        totalDebit |-> ledger.totalDebit,
        totalCredit |-> ledger.totalCredit,
        balance |-> ledger.totalDebit - ledger.totalCredit,
        lastTransaction |-> Or(ledger.lastTransaction, Empty),
        link |-> IF sheetName \in DOMAIN ss THEN sheetName ELSE <<"0">>]

\* updateLedgerMasterIndex: the rows under the header are replaced
updateLedgerMasterIndex(ss, ls) ==
    LET sorted == SortForIndex(ls)
    IN [i \in DOMAIN sorted |-> IndexRow(sorted[i], ss)]

-----------------------------------------------------------------------------
(* Inputs of the classifier specification *)

ID_MAS == <<"C", "G", "-", "M", "A", "S", "-", "1">>
ID_MAS_LC == <<"c", "g", "-", "m", "a", "s", "-", "1">>
ID_CON == <<"C", "G", "-", "C", "O", "N", "-", "1">>
ID_SUP == <<"C", "G", "-", "S", "U", "P", "-", "1">>
ID_SUP_LC == <<"c", "g", "-", "s", "u", "p", "-", "1">>
ID_CUS == <<"C", "G", "-", "C", "U", "S", "-", "1">>
ID_REN == <<"C", "G", "-", "R", "E", "N", "-", "1">>
ID_DEA == <<"C", "G", "-", "D", "E", "A", "-", "1">>
ID_PLAIN == <<"C", "G", "-", "X", "-", "1">>
ID_CON_SUP == <<"A", "-", "C", "O", "N", "-", "S", "U", "P", "-", "1">>
ID_CUS_SUP == <<"A", "-", "C", "U", "S", "-", "S", "U", "P", "-", "1">>
ID_MAS_CUS == <<"A", "-", "M", "A", "S", "-", "C", "U", "S", "-", "1">>
ID_MAS_CON == <<"A", "-", "M", "A", "S", "-", "C", "O", "N", "-", "1">>
ID_CON_DEA == <<"A", "-", "C", "O", "N", "-", "D", "E", "A", "-", "1">>
ID_SUPPLY == <<"S", "U", "P", "P", "L", "Y">>

ClassifyIds ==
    {<<>>, ID_MAS, ID_MAS_LC, ID_CON, ID_SUP, ID_SUP_LC, ID_CUS, ID_REN, ID_DEA,
     ID_PLAIN, ID_CON_SUP, ID_CUS_SUP, ID_MAS_CUS, ID_MAS_CON, ID_CON_DEA, ID_SUPPLY}

DocTypes == {"PURCHASE", "SALES", "BANK"}

\* amounts run from -50.00 to MaxAmount * 50.00
MaxAmount == 2
Amounts == {k * 5000 : k \in (-1)..MaxAmount}

-----------------------------------------------------------------------------
(* Idle values of the variables a specification does not use *)

ClassifyIdle ==
    /\ cPartyId = <<>>
    /\ cDocType = "BANK"
    /\ cTxn = [debit |-> 0, credit |-> 0]
    /\ cResult = "pending"

TransformIdle ==
    /\ tConfig = <<>>
    /\ tSourceType = "BANK"
    /\ tHeaders = <<>>
    /\ tRow = <<>>
    /\ tEntry = <<>>

DetectIdle ==
    /\ dSourceType = "BANK"
    /\ dData = <<>>
    /\ dResult = [done |-> FALSE, idx |-> -1]

GenIdle ==
    /\ transactions = <<>>
    /\ contacts = <<>>
    /\ ledgers = <<>>
    /\ sheets = <<>>
    /\ index = <<>>
    /\ result = <<>>

SourceIdle ==
    /\ rConfig = <<>>
    /\ rSources = <<>>

RefreshIdle ==
    /\ rResult = <<>>
    /\ rAlert = <<>>
    /\ rLog = <<>>
    /\ rRuns = 0

FetchIdle ==
    /\ fCall = "none"
    /\ fType = "BANK"
    /\ fResult = <<>>

ParseIdle ==
    /\ pVal = Null
    /\ pMeant = <<>>
    /\ pResult = <<>>

SingleIdle == sPartyId = <<>>

-----------------------------------------------------------------------------
(* Specification SpecClassify: every call classify(partyId, docType, txn) *)

InitClassify ==
    /\ cPartyId \in ClassifyIds
    /\ cDocType \in DocTypes
    /\ cTxn \in [debit : Amounts, credit : Amounts]
    /\ cResult = "pending"
    /\ TransformIdle /\ DetectIdle /\ GenIdle
    /\ SourceIdle /\ RefreshIdle /\ FetchIdle
    /\ ParseIdle /\ SingleIdle

Classify ==
    /\ cResult = "pending"
    /\ cResult' = determineLedgerCategory(cPartyId, cDocType, cTxn)
    /\ UNCHANGED <<parseVars, singleVars, cPartyId, cDocType, cTxn, transformVars, detectVars, genVars,
                   sourceVars, refreshVars, fetchVars>>

NextClassify == Classify

SpecClassify == InitClassify /\ [][NextClassify]_vars

HasAny(id, toks) == \E tk \in toks : Includes(id, tk)

\* C3: the classifier returns SU for every PURCHASE transaction and CU for every
\* SALES transaction, whatever the party ID and the debit and credit values.
C3_SourceRouting ==
    cResult # "pending" =>
        /\ (cDocType = "PURCHASE" => cResult = "SU")
        /\ (cDocType = "SALES" => cResult = "CU")

\* a PURCHASE with a customer-token ID and a SALES with a supplier-token ID
\* have both been classified by source
C3_Witness ==
    /\ cResult = "SU"
    /\ cDocType = "PURCHASE"
    /\ Includes(cPartyId, TOK_CUS)
    /\ cTxn.debit > 0

\* C4: for BANK, -SUP- gives SU; otherwise -CUS-, -REN- or -DEA- gives CU; an ID
\* with none of the six tokens gives CU.
C4_BankTokenPriority ==
    (cResult # "pending" /\ cDocType = "BANK") =>
        /\ (Includes(cPartyId, TOK_SUP) => cResult = "SU")
        /\ (~Includes(cPartyId, TOK_SUP)
              /\ HasAny(cPartyId, {TOK_CUS, TOK_REN, TOK_DEA}) => cResult = "CU")
        /\ (~HasAny(cPartyId, {TOK_SUP, TOK_CUS, TOK_REN, TOK_DEA, TOK_CON, TOK_MAS})
              => cResult = "CU")

\* a BANK transaction whose ID holds both -CON- and -SUP- went to SU
C4_Witness ==
    /\ cDocType = "BANK"
    /\ cPartyId = ID_CON_SUP
    /\ cResult = "SU"

\* C6: for a BANK transaction whose ID contains -MAS- and none of -SUP-, -CUS-,
\* -REN-, -DEA-, -CON-: SU when credit > 0, CU when credit <= 0 and debit > 0,
\* CU when neither is greater than 0.
C6_MasterByDirection ==
    (/\ cResult # "pending"
     /\ cDocType = "BANK"
     /\ Includes(cPartyId, TOK_MAS)
     /\ ~HasAny(cPartyId, {TOK_SUP, TOK_CUS, TOK_REN, TOK_DEA, TOK_CON})) =>
        /\ (cTxn.credit > 0 => cResult = "SU")
        /\ (cTxn.credit <= 0 /\ cTxn.debit > 0 => cResult = "CU")
        /\ (cTxn.credit <= 0 /\ cTxn.debit <= 0 => cResult = "CU")

\* a master party with both a credit and a debit went to SU
C6_Witness ==
    /\ cDocType = "BANK"
    /\ cPartyId = ID_MAS
    /\ cTxn.credit > 0
    /\ cTxn.debit > 0
    /\ cResult = "SU"

-----------------------------------------------------------------------------
(* Specification SpecTransform: one source row through the FieldMapper *)

H_grand_total == <<" ", "g", "r", "a", "n", "d", " ", "t", "o", "t", "a", "l", " ">>
H_PARTY_TYPE == <<"P", "A", "R", "T", "Y", " ", "T", "Y", "P", "E">>
H_ACCOUNT_ID == <<"A", "C", "C", "O", "U", "N", "T", "_", "I", "D">>
H_RECONCILED == <<"R", "E", "C", "O", "N", "C", "I", "L", "E", "D">>
S_200000 == <<"RUPEE", "2", ",", "0", "0", ",", "0", "0", "0", ".", "0", "0">>
S_1500_50 == <<"1", ",", "5", "0", "0", ".", "5", "0">>
S_NEG25 == <<"-", "2", "5">>
S_NA == <<"n", "/", "a">>
S_12 == <<"$", " ", "1", "2">>
N_ACME == <<"A", "c", "m", "e">>
N_BETA == <<"b", "e", "t", "a">>

\* amount cells with the number JavaScript reads from each (in hundredths)
AmountCases ==
    {[cell |-> Empty, val |-> 0],
     [cell |-> Num(0), val |-> 0],
     [cell |-> Num(50000), val |-> 50000],
     [cell |-> Num(-5000), val |-> -5000],
     [cell |-> Str(S_200000), val |-> 20000000],
     [cell |-> Str(S_1500_50), val |-> 150050],
     [cell |-> Str(S_NEG25), val |-> -2500],
     [cell |-> Str(S_NA), val |-> 0],
     [cell |-> Str(S_12), val |-> 1200]}

AmountCells == {c.cell : c \in AmountCases}

\* configurations: the defaults, the amount columns left blank, the amount
\* columns named in lower case with outer spaces
TransformConfigs ==
    {DefaultConfig,
     [DefaultConfig EXCEPT !.PUR_GRAND_TOTAL_COL = Empty, !.SAL_GRAND_TOTAL_COL = Empty],
     [DefaultConfig EXCEPT !.PUR_GRAND_TOTAL_COL = Str(H_grand_total),
                           !.SAL_GRAND_TOTAL_COL = Str(H_grand_total)]}

\* header rows of an invoice register (PURCHASE, SALES)
RegisterHeaders(nameCol) ==
    {<<Str(H_LF), Str(nameCol), Str(H_INVOICE_NO_DOT), Str(H_GRAND_TOTAL), Str(H_REMARKS)>>,
     <<Str(H_LF), Str(nameCol), Str(H_INVOICE_NO_DOT), Str(H_grand_total), Str(H_REMARKS)>>,
     <<Str(H_LF), Str(nameCol), Str(H_INVOICE_NO_DOT), Str(H_GST_TOTAL), Str(H_REMARKS)>>,
     <<Str(H_LF), Str(nameCol), Str(H_INVOICE_NO_DOT), Str(H_GRAND_TOTAL), Str(H_GRAND_TOTAL)>>}

RegisterRows ==
    {<<lf, Str(N_ACME), inv, amt, rem>> :
        lf \in {Str(ID_SUP), Empty}, inv \in {Num(700), Empty},
        amt \in AmountCells, rem \in {Empty, Str(N_BETA)}}

\* the bank schema of init.js, and the same columns in another order
BankSchemaHeaders ==
    <<Str(H_DATE), Str(H_PARTICULARS), Str(H_DEBIT), Str(H_CREDIT), Str(H_BALANCE),
      Str(H_LF), Str(H_PARTY_NAME), Str(H_PARTY_TYPE), Str(H_VOUCHER_TYPE),
      Str(H_REFERENCE), Str(H_ACCOUNT_ID), Str(H_RECONCILED), Str(H_REMARKS)>>

BankOtherHeaders ==
    <<Str(H_DATE), Str(H_PARTICULARS), Str(H_CREDIT), Str(H_DEBIT), Str(H_BALANCE),
      Str(H_LF), Str(H_PARTY_NAME), Str(H_PARTY_TYPE), Str(H_VOUCHER_TYPE),
      Str(H_REFERENCE), Str(H_ACCOUNT_ID), Str(H_RECONCILED), Str(H_REMARKS)>>

BankRows ==
    {<<d, Str(N_BETA), a3, a4, Num(100), lf, Str(N_ACME), Empty, Empty, Empty, Empty,
       Empty, Empty>> :
        d \in {DateVal(1), Empty}, a3 \in AmountCells, a4 \in AmountCells,
        lf \in {Str(ID_MAS), Empty}}

InitTransform ==
    /\ tConfig \in TransformConfigs
    /\ tSourceType \in DocTypes
    /\ \/ /\ tSourceType = "PURCHASE"
          /\ tHeaders \in RegisterHeaders(H_SUPPLIER_NAME)
          /\ tRow \in RegisterRows
       \/ /\ tSourceType = "SALES"
          /\ tHeaders \in RegisterHeaders(H_CUSTOMER_NAME)
          /\ tRow \in RegisterRows
       \/ /\ tSourceType = "BANK"
          /\ tConfig = DefaultConfig
          /\ tHeaders \in {BankSchemaHeaders, BankOtherHeaders}
          /\ tRow \in BankRows
    /\ tEntry = <<>>
    /\ ClassifyIdle /\ DetectIdle /\ GenIdle
    /\ SourceIdle /\ RefreshIdle /\ FetchIdle
    /\ ParseIdle /\ SingleIdle

\* fetchSourceData: rows.filter(some cell !== '').map(transformRow)
TransformRow ==
    /\ tEntry = <<>>
    /\ \E i \in DOMAIN tRow : tRow[i] # Empty
    /\ tEntry' = transformRow(tRow, tHeaders, getColumnMapping(tConfig, tSourceType),
                              tSourceType)
    /\ UNCHANGED <<parseVars, singleVars, tConfig, tSourceType, tHeaders, tRow, classifyVars, detectVars, genVars,
                   sourceVars, refreshVars, fetchVars>>

\* fetchBankDataAllTabs: a tab whose header row matches the schema, one data row
\* with a non-empty first cell
BankTabRow ==
    /\ tEntry = <<>>
    /\ tSourceType = "BANK"
    /\ Len(tRow) = BankTabWidth
    /\ \A i \in DOMAIN BANK_SCHEMA_HEADERS :
          ToUpperCase(Trim(ToStr(tHeaders[i]))) = BANK_SCHEMA_HEADERS[i]
    /\ Truthy(tRow[1])
    /\ tEntry' = BankTabEntry(tRow)
    /\ UNCHANGED <<parseVars, singleVars, tConfig, tSourceType, tHeaders, tRow, classifyVars, detectVars, genVars,
                   sourceVars, refreshVars, fetchVars>>

NextTransform == TransformRow \/ BankTabRow

SpecTransform == InitTransform /\ [][NextTransform]_vars

\* the number read from the cell under the column the configuration names
\* (first header equal to the name, ignoring case and outer spaces); 0 when the
\* name is blank or no header carries it
ExpectedAmount(nameCell) ==
    LET want == ToUpperCase(Trim(nameCell.s))
        hits == {i \in DOMAIN tHeaders : ToUpperCase(Trim(tHeaders[i].s)) = want}
        first == CHOOSE i \in hits : \A j \in hits : i <= j
    IN IF nameCell.s = <<>> \/ hits = {} THEN 0
       ELSE (CHOOSE c \in AmountCases : c.cell = tRow[first]).val

\* C7: a PURCHASE row gives credit = parsed amount and debit = 0; a SALES row
\* gives debit = parsed amount and credit = 0; a BANK row gives debit and credit
\* from its own debit and credit columns.
C7_AmountRouting ==
    tEntry # <<>> =>
        /\ tSourceType = "PURCHASE" =>
              /\ tEntry.credit = ExpectedAmount(tConfig.PUR_GRAND_TOTAL_COL)
              /\ tEntry.debit = 0
        /\ tSourceType = "SALES" =>
              /\ tEntry.debit = ExpectedAmount(tConfig.SAL_GRAND_TOTAL_COL)
              /\ tEntry.credit = 0
        /\ tSourceType = "BANK" =>
              /\ tEntry.debit = ExpectedAmount(tConfig.BANK_DEBIT_COL)
              /\ tEntry.credit = ExpectedAmount(tConfig.BANK_CREDIT_COL)

\* a PURCHASE row whose amount cell reads 2,00,000.00 with a rupee sign became a
\* credit of 200000.00
C7_Witness ==
    /\ tEntry # <<>>
    /\ tSourceType = "PURCHASE"
    /\ tRow[4] = Str(S_200000)
    /\ tEntry.credit = 20000000
    /\ tEntry.debit = 0

-----------------------------------------------------------------------------
(* Specification SpecDetect: detectHeaderRow on one raw table *)

H_L_F_SPACED == <<"L", " ", "/", " ", "F">>
H_lf_padded == <<" ", "l", "/", "f", " ">>
H_DEBIT_DOT == <<"D", "E", "B", "I", "T", ".">>

\* the rows of a table; all but two are data rows
MaxRows == 12

NameColumn(sourceType) == IF sourceType = "SALES" THEN H_CUSTOMER_NAME ELSE H_SUPPLIER_NAME

DataRow == <<DateVal(1), Str(N_BETA), Num(100), Empty, Num(100), Str(ID_MAS)>>
BlankRow == <<Empty, Empty, Empty, Empty, Empty, Empty>>
LFOnlyRow == <<Empty, Empty, Empty, Empty, Empty, Str(H_LF)>>
SpacedLFOnlyRow == <<Str(H_L_F_SPACED), Empty, Empty, Empty, Empty, Empty>>
PaddedLFOnlyRow == <<Empty, Str(H_lf_padded), Empty, Empty, Empty, Empty>>

\* rows that may stand for a header, per source kind: a decoy with two key
\* columns and no L/F, L/F alone, L/F and one more, three key columns without
\* L/F, the full header, and spellings with dots, spaces and lower case
SpecialRows(sourceType) ==
    IF sourceType = "BANK" THEN
        {DataRow, BlankRow, LFOnlyRow, SpacedLFOnlyRow, PaddedLFOnlyRow,
         <<Str(H_DATE), Empty, Str(H_DEBIT), Empty, Empty, Empty>>,
         <<Str(H_DATE), Empty, Empty, Empty, Empty, Str(H_lf_padded)>>,
         <<Str(H_DATE), Str(H_PARTICULARS), Str(H_DEBIT), Empty, Empty, Empty>>,
         <<Str(H_L_F_SPACED), Empty, Str(H_DEBIT_DOT), Empty, Empty, Empty>>,
         <<Str(H_DATE), Str(H_PARTICULARS), Str(H_DEBIT), Str(H_CREDIT), Str(H_BALANCE),
           Str(H_LF)>>}
    ELSE
        {DataRow, BlankRow, LFOnlyRow, SpacedLFOnlyRow, PaddedLFOnlyRow,
         <<Empty, Empty, Str(H_INVOICE_NO_DOT), Str(H_GRAND_TOTAL), Empty, Empty>>,
         <<Str(H_lf_padded), Empty, Str(H_INVOICE_NO_DOT), Empty, Empty, Empty>>,
         <<Empty, Str(NameColumn(sourceType)), Str(H_INVOICE_NO_DOT), Str(H_GRAND_TOTAL),
           Empty, Empty>>,
         <<Str(H_LF), Str(NameColumn(sourceType)), Str(H_INVOICE_NO_DOT),
           Str(H_GRAND_TOTAL), Str(H_REMARKS), Empty>>}

\* a table of n rows: special rows r1 at p1 and r2 at p2 (the next row or the
\* last one), data rows elsewhere
TableOf(n, p1, r1, p2, r2) ==
    [i \in 1..n |-> IF i = p1 THEN r1 ELSE IF i = p2 THEN r2 ELSE DataRow]

InitDetect ==
    /\ dSourceType \in DocTypes
    /\ \E n \in {2, MaxRows} : \E p1 \in 1..n, p2 \in 1..n :
          /\ p1 < p2
          /\ p2 \in {p1 + 1, n}
          /\ \E r1 \in SpecialRows(dSourceType), r2 \in SpecialRows(dSourceType) :
                dData = TableOf(n, p1, r1, p2, r2)
    /\ dResult = [done |-> FALSE, idx |-> -1]
    /\ ClassifyIdle /\ TransformIdle /\ GenIdle
    /\ SourceIdle /\ RefreshIdle /\ FetchIdle
    /\ ParseIdle /\ SingleIdle

DetectHeaderRow ==
    /\ ~dResult.done
    /\ dResult' = [done |-> TRUE, idx |-> detectHeaderRow(dData, dSourceType)]
    /\ UNCHANGED <<parseVars, singleVars, dSourceType, dData, classifyVars, transformVars, genVars,
                   sourceVars, refreshVars, fetchVars>>

NextDetect == DetectHeaderRow

SpecDetect == InitDetect /\ [][NextDetect]_vars

\* a cell carries the expected column name: equal after trimming and upper-casing,
\* or equal once dots and white space are ignored
IgnoredInNames == {".", " ", "\t", "\n"}
CellNames(cell, col) ==
    LET h == ToUpperCase(Trim(ToStr(cell)))
    IN h = col \/ RemoveChars(h, IgnoredInNames) = RemoveChars(col, IgnoredInNames)

\* the expected columns of a source kind that a row contains
ExpectedIn(row, sourceType) ==
    {col \in Range(keyColumns(sourceType)) : \E j \in DOMAIN row : CellNames(row[j], col)}

\* the row qualifies: the anchor L/F plus one other expected column, or three
QualifiesBy(e) == (H_LF \in e /\ Cardinality(e) >= 2) \/ Cardinality(e) >= 3
Qualifies(row, sourceType) == QualifiesBy(ExpectedIn(row, sourceType))

FullyMatches(row, sourceType) ==
    ExpectedIn(row, sourceType) = Range(keyColumns(sourceType))

\* when a row among the first 10 qualifies, the row returned is the first of them
SmallestQualifyingReturned ==
    (/\ dResult.done
     /\ \E i \in DOMAIN dData : i <= 10 /\ Qualifies(dData[i], dSourceType)) =>
        LET r == dResult.idx + 1
        IN /\ r \in DOMAIN dData
           /\ r <= 10
           /\ Qualifies(dData[r], dSourceType)
           /\ \A i \in 1..(r - 1) : ~Qualifies(dData[i], dSourceType)

\* a non-qualifying row that stands before a fully matching row has been returned
DecoyReturned(window) ==
    LET r == dResult.idx + 1
    IN /\ r \in DOMAIN dData
       /\ ~Qualifies(dData[r], dSourceType)
       /\ \E f \in DOMAIN dData :
             r < f /\ f <= window /\ FullyMatches(dData[f], dSourceType)

\* C10 as claimed: detection returns the smallest qualifying row index below 10,
\* and a non-qualifying decoy row placed before a fully matching row (wherever
\* that row stands) is never returned.
C10_AsClaimed ==
    /\ SmallestQualifyingReturned
    /\ dResult.done => ~DecoyReturned(Len(dData))

\* C10 amended: detection returns the smallest qualifying row index below 10,
\* and a non-qualifying decoy row placed before a fully matching row that lies
\* within the first 10 rows is never returned.
C10_DecoyBeforeHeaderInWindow ==
    /\ SmallestQualifyingReturned
    /\ dResult.done => ~DecoyReturned(10)

\* a BANK table with the DATE/DEBIT decoy in row 3 and the full header in row 4:
\* detection returned index 3
C10_Witness ==
    /\ dResult.done
    /\ dSourceType = "BANK"
    /\ Len(dData) = MaxRows
    /\ dData[3] = <<Str(H_DATE), Empty, Str(H_DEBIT), Empty, Empty, Empty>>
    /\ FullyMatches(dData[4], "BANK")
    /\ dResult.idx = 3


-----------------------------------------------------------------------------
(* generateAllLedgers: the handler as one step *)

\* a plausible slip: a worksheet is inserted even when one of that name exists,
\* so the statement lands on a copy
PutSheet_Duplicate(ss, sheetName, sh) ==
    IF sheetName \in DOMAIN ss THEN (Append(sheetName, "2") :> sh) @@ ss
    ELSE (sheetName :> sh) @@ ss

\* the workbook with one worksheet written or rewritten
PutSheet(ss, sheetName, sh) == (sheetName :> sh) @@ ss

\* a plausible slip: a statement that fails is passed over and the loop goes on
\* to the ledgers behind it
RECURSIVE RenderAll_PastFailure(_, _, _, _)
RenderAll_PastFailure(ss, ls, company, k) ==
    IF ls = <<>> THEN ss
    ELSE (IF Len(ls) = k + 1 THEN <<>>
          ELSE (buildSheetName(ls[Len(ls)].id, ls[Len(ls)].ledgerCategory)
                  :> createPartyLedger(ls[Len(ls)], company, ls[Len(ls)].transactions,
                                       ls[Len(ls)].ledgerCategory)))
         @@ RenderAll_PastFailure(ss, SubSeq(ls, 1, Len(ls) - 1), company, k)

\* the workbook after the first k ledgers were rendered, in order
RECURSIVE RenderAll(_, _, _, _)
RenderAll(ss, ls, company, k) ==
    IF k = 0 THEN ss
    ELSE PutSheet(RenderAll(ss, ls, company, k - 1),
                  buildSheetName(ls[k].id, ls[k].ledgerCategory),
                  createPartyLedger(ls[k], company, ls[k].transactions,
                                    ls[k].ledgerCategory))

\* the index sheet: the placeholder line when there is no ledger, else the rows
IndexOf_Ledgers(ss, ls) ==
    IF ls = <<>> THEN [placeholder |-> TRUE, rows |-> <<>>]
    ELSE [placeholder |-> FALSE, rows |-> updateLedgerMasterIndex(ss, ls)]

-----------------------------------------------------------------------------
(* Specification of ledger generation *)

MaxTxns == 3

H_INVOICE_DATE_COL == <<Str(H_LF), Str(H_SUPPLIER_NAME), Str(H_INVOICE_NO_DOT),
                        Str(H_GRAND_TOTAL), Str(H_INVOICE_DATE)>>
H_SALES_COLS == <<Str(H_LF), Str(H_CUSTOMER_NAME), Str(H_INVOICE_NO_DOT),
                  Str(H_GRAND_TOTAL), Str(H_INVOICE_DATE)>>
N_ZED == <<"Z", "e", "d">>
N_X == <<"x">>

\* rows of the purchase register, the sales register and a bank tab
GenPurchaseRows ==
    {<<Str(ID_MAS), Str(N_ACME), Num(700), Num(1000), DateVal(2)>>,
     <<Str(ID_SUP), Str(N_BETA), Num(800), Num(5400), DateVal(4)>>}

GenSalesRows ==
    {<<Str(ID_MAS_LC), Str(N_ACME), Num(900), Num(3000), DateVal(1)>>,
     <<Str(ID_MAS_CON), Str(N_ZED), Num(1000), Num(2500), Empty>>}

GenBankRow(date, lf, name, debit, credit) ==
    <<date, Str(N_X), debit, credit, Empty, lf, Str(name), Empty, Empty, Empty, Empty,
      Empty, Empty>>

GenBankRows ==
    {GenBankRow(DateVal(1), Str(ID_MAS), N_ACME, Empty, Num(5000)),
     GenBankRow(DateVal(3), Str(ID_MAS_CON), N_ZED, Num(1000), Empty),
     GenBankRow(DateVal(2), Empty, N_BETA, Num(700), Empty),
     GenBankRow(DateVal(3), Str(ID_SUP), N_BETA, Num(5000), Empty),
     GenBankRow(DateVal(1), Str(ID_MAS), N_ACME, Num(3000), Num(2000)),
     GenBankRow(DateVal(2), Str(ID_MAS), N_ACME, Empty, Str(S_NEG25)),
     GenBankRow(DateVal(2), Str(<<" ">> \o ID_MAS_LC), N_ACME, Num(1000), Empty),
     GenBankRow(Str(S_NA), Str(ID_SUP), N_BETA, Num(5000), Empty)}

\* what refreshData collects from each source
GenPurchases ==
    {transformRow(r, H_INVOICE_DATE_COL, getColumnMapping(DefaultConfig, "PURCHASE"), "PURCHASE") :
        r \in GenPurchaseRows}
\* a sales register without a date column: the date of its rows is null
H_SALES_UNDATED == <<Str(H_LF), Str(H_CUSTOMER_NAME), Str(H_INVOICE_NO_DOT),
                     Str(H_GRAND_TOTAL), Str(H_REMARKS)>>
GenSalesUndatedRows ==
    {<<Str(ID_MAS_LC), Str(N_ACME), Num(901), Num(3000), Empty>>}

GenSales ==
    {transformRow(r, H_SALES_COLS, getColumnMapping(DefaultConfig, "SALES"), "SALES") :
        r \in GenSalesRows}
    \cup {transformRow(r, H_SALES_UNDATED, getColumnMapping(DefaultConfig, "SALES"), "SALES") :
            r \in GenSalesUndatedRows}
GenBank == {BankTabEntry(r) : r \in GenBankRows}

\* every object of the list is its own: oid is the identity of the entry
WithOid(txns) ==
    [i \in DOMAIN txns |->
        [f \in DOMAIN txns[i] \cup {"oid"} |-> IF f = "oid" THEN i ELSE txns[i][f]]]

\* allTransactions: purchases, then sales, then bank
GenInputs ==
    {WithOid(x[1] \o x[2] \o x[3]) :
        x \in UNION {[1..k[1] -> GenPurchases] \X [1..k[2] -> GenSales] \X [1..k[3] -> GenBank] :
                       k \in {n \in (0..MaxTxns) \X (0..MaxTxns) \X (0..MaxTxns) :
                                 n[1] + n[2] + n[3] <= MaxTxns}}}

Company ==
    [id |-> <<"C", "G", "-", "0">>, name |-> <<"C", "o">>, address1 |-> <<>>,
     address2 |-> <<>>, gst |-> <<"G">>, phone |-> <<>>, email |-> <<"e">>]

\* the contacts workbook: the key columns of ALL CONTACTS; a row whose SL is in
\* lower case with outer spaces, a row without SL, a row without company name
ContactHeaders ==
    <<Str(H_SL), Str(H_COMPANY_NAME), Str(H_ADDRESS_LINE_1), Str(H_DISTRICT), Str(H_STATE),
      Str(H_PIN_CODE), Str(H_GST), Str(H_MOBILE_NO), Str(H_EMAIL_ID)>>

ContactRows ==
    <<<<Str(<<" ">> \o ID_MAS_LC \o <<" ">>), Str(N_ZED), Str(<<"a">>), Str(<<"D">>), Empty,
        Str(<<"4">>), Empty, Str(<<"9">>), Empty>>,
      <<Empty, Str(N_BETA), Str(<<"b">>), Empty, Empty, Empty, Empty, Empty, Empty>>,
      <<Str(ID_MAS_CON), Empty, Empty, Empty, Empty, Empty, Str(<<"G">>), Empty,
        Str(<<"e">>)>>>>

ContactBooks ==
    {[open |-> FALSE, tab |-> FALSE, allData |-> <<>>],
     [open |-> TRUE, tab |-> TRUE, allData |-> <<ContactHeaders>> \o ContactRows]}

ContactConfigs == {[CONTACTS_SHEET_ID |-> Str(<<"1", "b">>)], [CONTACTS_SHEET_ID |-> Empty]}

\* the directory as fetchAllContacts returns it: empty, or with two records
ContactDirs == {fetchAllContacts(c, b) : c \in ContactConfigs, b \in ContactBooks}

InitGen ==
    /\ transactions \in GenInputs
    /\ contacts \in ContactDirs
    /\ ledgers = <<>>
    /\ sheets = <<>>
    /\ index = [placeholder |-> FALSE, rows |-> <<>>]
    /\ result = [count |-> 0, status |-> "pending", error |-> NULL]
    /\ ClassifyIdle /\ TransformIdle /\ DetectIdle
    /\ SourceIdle /\ RefreshIdle /\ FetchIdle
    /\ ParseIdle /\ SingleIdle

\* the message of the error the worksheet service raises
E_WORKSHEET == "worksheet"

\* generateAllLedgers(ss, config, transactions); failAt = k > 0 is the worksheet
\* service refusing the k-th statement, which ends the run in the catch block
GenerateLedgers(txns) ==
    \E grouped \in {GroupAll(txns)} :
       \E enriched \in {[i \in DOMAIN grouped |-> Enrich(grouped[i], contacts)]} :
       \E failAt \in 0..Len(enriched) :
       \E count \in {IF failAt = 0 THEN Len(enriched) ELSE failAt - 1} :
       \E ls \in {[i \in DOMAIN enriched |->
                     IF failAt = 0 \/ i <= failAt THEN SortLedger(enriched[i])
                     ELSE enriched[i]]} :
       \E ss \in {RenderAll(sheets, ls, Company, count)} :
          /\ sheets' = ss
          /\ IF failAt = 0
             THEN /\ ledgers' = SortForIndex(ls)
                  /\ index' = IndexOf_Ledgers(ss, ls)
                  /\ result' = [count |-> count, status |-> "SUCCESS", error |-> NULL]
             ELSE /\ ledgers' = ls
                  /\ index' = index
                  /\ result' = [count |-> count, status |-> "ERROR", error |-> E_WORKSHEET]

GenerateAllLedgers ==
    /\ result.status = "pending"
    /\ GenerateLedgers(transactions)
    /\ UNCHANGED <<parseVars, singleVars, transactions, contacts, classifyVars, transformVars, detectVars,
                   sourceVars, refreshVars, fetchVars>>

NextGen == GenerateAllLedgers

SpecGen == InitGen /\ [][NextGen]_vars


-----------------------------------------------------------------------------
(* Properties of ledger generation *)

Finished == result.status # "pending"

\* the category generateAllLedgers determines for a transaction
CategoryOfTxn(t) == determineLedgerCategory(ToUpperCase(t.partyId), t.docType, t)

\* where a transaction of the input sits in the ledgers: pairs <<ledger, position>>
PlacesOf(i) ==
    {<<j, k>> \in (DOMAIN ledgers) \X (1..MaxTxns + 1) :
        k \in DOMAIN ledgers[j].transactions /\ ledgers[j].transactions[k].oid = i}

\* the plain sum of a numeric field over a list of transactions
RECURSIVE SumField(_, _)
SumField(txns, f) ==
    IF txns = <<>> THEN 0 ELSE txns[1][f] + SumField(Tail(txns), f)

\* the ledgers whose statement was written in this run
RenderedLedgers == {ledgers[j] : j \in {j \in DOMAIN ledgers : j <= result.count \/ result.status = "SUCCESS"}}

StatementOf(l) == sheets[buildSheetName(l.id, l.ledgerCategory)]

\* the row of a statement that is labelled so in column B
RowLabelled(sheet, label) == CHOOSE r \in DOMAIN sheet.rows : sheet.rows[r][2] = Str(label)

\* C1: after the grouping every transaction with a non-empty party ID and a
\* non-null category sits exactly once in exactly one ledger, the one of its
\* uppercased party ID and category; no two ledgers share that pair and no
\* ledger holds a transaction of another party ID or category
C1_GroupedByIdAndCategory ==
    Finished =>
        /\ \A i \in DOMAIN transactions :
              LET t == transactions[i]
              IN (t.partyId # <<>> /\ CategoryOfTxn(t) # NULL) =>
                    /\ Cardinality(PlacesOf(i)) = 1
                    /\ \A pl \in PlacesOf(i) :
                          /\ ledgers[pl[1]].id = ToUpperCase(t.partyId)
                          /\ ledgers[pl[1]].ledgerCategory = CategoryOfTxn(t)
                          /\ ledgers[pl[1]].transactions[pl[2]] = t
        /\ \A j \in DOMAIN ledgers : \A k \in DOMAIN ledgers[j].transactions :
              LET t == ledgers[j].transactions[k]
              IN /\ ToUpperCase(t.partyId) = ledgers[j].id
                 /\ CategoryOfTxn(t) = ledgers[j].ledgerCategory
        /\ \A j1, j2 \in DOMAIN ledgers :
              (ledgers[j1].id = ledgers[j2].id
                  /\ ledgers[j1].ledgerCategory = ledgers[j2].ledgerCategory) => j1 = j2

\* one party ID, given in two spellings, ends in an SU and a CU ledger
C1_Witness ==
    /\ result.status = "SUCCESS"
    /\ Len(ledgers) = 2
    /\ ledgers[1].id = ID_MAS /\ ledgers[2].id = ID_MAS
    /\ ledgers[1].ledgerCategory = "SU" /\ ledgers[2].ledgerCategory = "CU"
    /\ \E i \in DOMAIN transactions : transactions[i].partyId = ID_MAS_LC

\* C2: the totals of every ledger are the sums of the debits and credits of the
\* transactions in its list, and the TOTAL row of its statement shows the same
\* two numbers under DEBIT and CREDIT
C2_TotalsAreSums ==
    Finished =>
        /\ \A j \in DOMAIN ledgers :
              /\ ledgers[j].totalDebit = SumField(ledgers[j].transactions, "debit")
              /\ ledgers[j].totalCredit = SumField(ledgers[j].transactions, "credit")
        /\ \A l \in RenderedLedgers :
              LET sh == StatementOf(l)
                  r == RowLabelled(sh, T_TOTAL)
              IN /\ Cell(sh, r, 5) = Num(l.totalDebit)
                 /\ Cell(sh, r, 6) = Num(l.totalCredit)

\* a ledger of two transactions, re-ordered by the sort, with both totals set
C2_Witness ==
    /\ result.status = "SUCCESS"
    /\ \E l \in RenderedLedgers :
          /\ Len(l.transactions) = 2
          /\ l.transactions[1].oid > l.transactions[2].oid
          /\ l.totalDebit > 0 /\ l.totalCredit > l.totalDebit
          /\ Cell(StatementOf(l), RowLabelled(StatementOf(l), T_TOTAL), 6) = Num(l.totalCredit)

\* the transactions of the input that fall under a ledger
MembersOf(l) ==
    {i \in DOMAIN transactions :
        /\ transactions[i].partyId # <<>>
        /\ ToUpperCase(transactions[i].partyId) = l.id
        /\ CategoryOfTxn(transactions[i]) = l.ledgerCategory}

RECURSIVE SumOverSet(_, _)
SumOverSet(S, f) ==
    IF S = {} THEN 0
    ELSE LET i == CHOOSE x \in S : TRUE
         IN transactions[i][f] + SumOverSet(S \ {i}, f)

IsContractorBank(t) ==
    /\ t.docType = "BANK"
    /\ Includes(ToUpperCase(t.partyId), TOK_CON)
    /\ ~HasAny(ToUpperCase(t.partyId), {TOK_SUP, TOK_CUS, TOK_REN, TOK_DEA})

\* C5: a BANK transaction with -CON- and none of -SUP-, -CUS-, -REN-, -DEA- is
\* classified null; a transaction classified null is in no ledger's list and in
\* no ledger's totals, every ledger, statement and index row stands for
\* transactions that are not null, and the run ends in an error only when the
\* worksheet service fails
C5_NullIsLeftOut ==
    Finished =>
        /\ \A i \in DOMAIN transactions :
              /\ IsContractorBank(transactions[i]) => CategoryOfTxn(transactions[i]) = NULL
              /\ CategoryOfTxn(transactions[i]) = NULL => PlacesOf(i) = {}
        /\ \A j \in DOMAIN ledgers :
              /\ MembersOf(ledgers[j]) # {}
              /\ ledgers[j].totalDebit = SumOverSet(MembersOf(ledgers[j]), "debit")
              /\ ledgers[j].totalCredit = SumOverSet(MembersOf(ledgers[j]), "credit")
        /\ \A n \in DOMAIN sheets :
              \E l \in RenderedLedgers : n = buildSheetName(l.id, l.ledgerCategory)
        /\ \A r \in DOMAIN index.rows :
              \E j \in DOMAIN ledgers :
                  /\ index.rows[r].id = ledgers[j].id
                  /\ index.rows[r].category = <<"[">> \o CategoryChars(ledgers[j].ledgerCategory) \o <<"]">>
        /\ Len(index.rows) <= Len(ledgers)
        /\ result.status = "ERROR" => result.error = "worksheet"

\* a contractor's bank payment next to a sale to the same party: the run
\* succeeds with one ledger that holds the sale alone
C5_Witness ==
    /\ result.status = "SUCCESS"
    /\ Len(ledgers) = 1
    /\ ledgers[1].id = ID_MAS_CON
    /\ Len(ledgers[1].transactions) = 1
    /\ \E i \in DOMAIN transactions :
          /\ IsContractorBank(transactions[i])
          /\ transactions[i].partyId = ID_MAS_CON
          /\ transactions[i].debit > 0

\* C8: on every statement written, with balance = total debit - total credit of
\* its transactions: balance >= 0 puts |balance| under DEBIT, nothing under
\* CREDIT and DR in column G; balance < 0 puts |balance| under CREDIT, nothing
\* under DEBIT and CR in column G
C8_ClosingBalanceSide ==
    Finished =>
        \A l \in RenderedLedgers :
            LET sh == StatementOf(l)
                r == RowLabelled(sh, T_CLOSING_BALANCE)
                balance == SumField(l.transactions, "debit") - SumField(l.transactions, "credit")
            IN IF balance >= 0
               THEN /\ Cell(sh, r, 5) = Num(balance)
                    /\ Cell(sh, r, 6) = Empty
                    /\ Cell(sh, r, 7) = Str(T_DR)
               ELSE /\ Cell(sh, r, 6) = Num(0 - balance)
                    /\ Cell(sh, r, 5) = Empty
                    /\ Cell(sh, r, 7) = Str(T_CR)

\* one statement with a balance of exactly zero over non-zero totals, another
\* with a credit balance
C8_Witness ==
    /\ Finished
    /\ \E l \in RenderedLedgers :
          /\ l.totalDebit > 0
          /\ l.totalDebit = l.totalCredit
          /\ Cell(StatementOf(l), RowLabelled(StatementOf(l), T_CLOSING_BALANCE), 7) = Str(T_DR)

\* C9: on every statement written the GRAND TOTAL row shows the larger of total
\* debit and total credit under DEBIT and under CREDIT alike
C9_GrandTotalIsMax ==
    Finished =>
        \A l \in RenderedLedgers :
            LET sh == StatementOf(l)
                r == RowLabelled(sh, T_GRAND_TOTAL)
                d == SumField(l.transactions, "debit")
                c == SumField(l.transactions, "credit")
            IN /\ Cell(sh, r, 5) = Num(IF d >= c THEN d ELSE c)
               /\ Cell(sh, r, 6) = Cell(sh, r, 5)

\* a statement whose totals differ and are both set: 5000 paid against 5400 billed
C9_Witness ==
    /\ Finished
    /\ \E l \in RenderedLedgers :
          /\ l.id = ID_SUP
          /\ l.totalDebit = 5000 /\ l.totalCredit = 5400
          /\ Cell(StatementOf(l), RowLabelled(StatementOf(l), T_GRAND_TOTAL), 5) = Num(5400)

\* the transaction a ledger was opened with: the first of its members in the
\* order of the input
FirstMember(l) ==
    l.transactions[CHOOSE k \in DOMAIN l.transactions :
                      \A k2 \in DOMAIN l.transactions :
                          l.transactions[k].oid <= l.transactions[k2].oid]

ContactFields == {"name", "address1", "address2", "gst", "phone", "email"}

\* C19: after a run every ledger whose party ID has a record in the directory
\* shows the directory's name, address lines, GST, phone and email wherever the
\* record has one, whatever its transactions say; a ledger without a record
\* keeps the name of the transaction it was opened with
C19_DirectoryOverrides ==
    Finished =>
        \A j \in DOMAIN ledgers :
            IF ledgers[j].id \in DOMAIN contacts
            THEN \A f \in ContactFields :
                    contacts[ledgers[j].id][f] # <<>> => ledgers[j][f] = contacts[ledgers[j].id][f]
            ELSE ledgers[j].name = FirstMember(ledgers[j]).partyName

\* the ledger of CG-MAS-1, whose transactions say Acme, is named Zed after the
\* directory row that gives the ID in lower case, and has its address and phone;
\* the ledger of a party without a row keeps its own name
C19_Witness ==
    /\ result.status = "SUCCESS"
    /\ \E j \in DOMAIN ledgers :
          /\ ledgers[j].id = ID_MAS
          /\ ID_MAS \in DOMAIN contacts
          /\ FirstMember(ledgers[j]).partyName = N_ACME
          /\ ledgers[j].name = N_ZED
          /\ ledgers[j].address2 = <<"D", ",", " ", "4">>
          /\ ledgers[j].phone = <<"9">>
    /\ \E j \in DOMAIN ledgers :
          /\ ledgers[j].id = ID_SUP
          /\ ledgers[j].name = N_BETA

\* what kind of date a transaction carries: a Date (or a number, which
\* new Date reads as a time), none (null, '' or 0), or a text that is no date
IsDated(t) == t.date.t = "date" \/ (t.date.t = "num" /\ t.date.n # 0)
IsUndated(t) == ~IsDated(t)

\* the ledgers whose list was sorted in this run
SortedLedgers == RenderedLedgers

\* the order C17 describes, on one list: dates ascending, the transactions
\* without a usable date before all dated ones, equal dates and undated ones
\* among themselves in the order of the input
InClaimedOrder(txns) ==
    \A a, b \in DOMAIN txns :
        a < b =>
            /\ ~(IsDated(txns[a]) /\ IsUndated(txns[b]))
            /\ (IsDated(txns[a]) /\ IsDated(txns[b])) => txns[a].date.n <= txns[b].date.n
            /\ (/\ IsDated(txns[a]) = IsDated(txns[b])
                /\ IsDated(txns[a]) => txns[a].date.n = txns[b].date.n)
                  => txns[a].oid < txns[b].oid

\* C17: in every ledger the transactions are in date order, those whose date is
\* missing or unparseable stand before all dated ones, and transactions of
\* equal date, or both without one, keep the order of the input
C17_DateOrderUndatedFirst ==
    Finished => \A l \in SortedLedgers : InClaimedOrder(l.transactions)

\* the same order for the ledgers that hold no transaction with a text for a
\* date: this part of C17 holds
C17_OrderWithoutTextDates ==
    Finished =>
        \A l \in SortedLedgers :
            (\A k \in DOMAIN l.transactions :
                ~(l.transactions[k].date.t = "str" /\ Truthy(l.transactions[k].date)))
                => InClaimedOrder(l.transactions)

\* C18: in every ledger a transaction whose date is null stands behind all the
\* transactions that have a date, and a run fails for no other reason than the
\* worksheet service
C18_NullDateLast ==
    Finished =>
        /\ \A l \in SortedLedgers :
              \A a, b \in DOMAIN l.transactions :
                  (l.transactions[a].date = Null /\ IsDated(l.transactions[b])) => b < a
        /\ result.status = "ERROR" => result.error = E_WORKSHEET

\* C13: when the statement of the k-th ledger fails, generateAllLedgers returns
\* status ERROR with the message of the error and count k - 1: the first k - 1
\* ledgers have their statements as written, the k-th and all later ones have
\* none, and the index is as it was before the run
C13_RenderFailureStops ==
    result.status = "ERROR" =>
        /\ result.error = E_WORKSHEET
        /\ result.count < Len(ledgers)
        /\ \A j \in DOMAIN ledgers :
              IF j <= result.count
              THEN /\ buildSheetName(ledgers[j].id, ledgers[j].ledgerCategory) \in DOMAIN sheets
                   /\ StatementOf(ledgers[j])
                        = createPartyLedger(ledgers[j], Company, ledgers[j].transactions,
                                            ledgers[j].ledgerCategory)
              ELSE buildSheetName(ledgers[j].id, ledgers[j].ledgerCategory) \notin DOMAIN sheets
        /\ Cardinality(DOMAIN sheets) = result.count
        /\ index = [placeholder |-> FALSE, rows |-> <<>>]

\* three ledgers, the second statement fails: one statement, count 1
C13_Witness ==
    /\ result.status = "ERROR"
    /\ result.error = E_WORKSHEET
    /\ Len(ledgers) = 3
    /\ result.count = 1
    /\ DOMAIN sheets = {buildSheetName(ledgers[1].id, ledgers[1].ledgerCategory)}

-----------------------------------------------------------------------------
(* The CONFIG tab and the source workbooks a fetch or a refresh runs against *)

ID_WORKBOOK == <<"1", "a", "B">>
ORG_CG == <<"C", "G">>

\* readConfig(): the keys of the CONFIG tab; a key without a value reads ''
ConfigOf(org, p, sl, b) ==
    [ORG_CODE |-> org, PURCHASE_SHEET_ID |-> p, SALES_SHEET_ID |-> sl, BANK_SHEET_ID |-> b]
        @@ DefaultConfig

SourceConfigs ==
    {ConfigOf(org, p, sl, b) :
        org \in {Str(ORG_CG), Empty}, p \in {Str(ID_WORKBOOK), Empty},
        sl \in {Str(ID_WORKBOOK), Empty}, b \in {Str(ID_WORKBOOK), Empty}}

Workbook(open, tab, allData, tabs) ==
    [open |-> open, tab |-> tab, allData |-> allData, tabs |-> tabs]

RegTitleRow == <<Str(N_X), Empty, Empty, Empty, Empty>>
RegBlankRow == <<Empty, Empty, Empty, Empty, Empty>>
P_ROW_MAS == <<Str(ID_MAS), Str(N_ACME), Num(700), Num(1000), DateVal(2)>>
P_ROW_BAD == <<Empty, Str(N_BETA), Empty, Str(S_NA), Str(S_NA)>>
S_ROW_MAS == <<Str(ID_MAS_LC), Str(N_ACME), Num(900), Num(3000), DateVal(1)>>
S_ROW_CON == <<Str(ID_MAS_CON), Str(N_ZED), Num(1000), Num(2500), Empty>>

\* the purchase workbook: cannot be opened; has no such tab; holds the header
\* row only; holds no header row; holds a title row, the header row, and data
\* rows of which one is blank and one has neither party ID nor amount
PurchaseBooks ==
    {Workbook(FALSE, FALSE, <<>>, <<>>),
     Workbook(TRUE, FALSE, <<>>, <<>>),
     Workbook(TRUE, TRUE, <<H_INVOICE_DATE_COL>>, <<>>),
     Workbook(TRUE, TRUE, <<RegTitleRow, P_ROW_MAS>>, <<>>),
     Workbook(TRUE, TRUE,
              <<RegTitleRow, H_INVOICE_DATE_COL, P_ROW_MAS, RegBlankRow, P_ROW_BAD>>, <<>>)}

SalesBooks ==
    {Workbook(FALSE, FALSE, <<>>, <<>>),
     Workbook(TRUE, TRUE, <<RegTitleRow, H_SALES_COLS>>, <<>>),
     Workbook(TRUE, TRUE, <<H_SALES_COLS, S_ROW_MAS, RegBlankRow, S_ROW_CON>>, <<>>)}

BankTitleRow == [i \in 1..BankTabWidth |-> IF i = 1 THEN Str(N_X) ELSE Empty]
BankBlankRow == [i \in 1..BankTabWidth |-> Empty]
B_ROW_MAS == GenBankRow(DateVal(1), Str(ID_MAS), N_ACME, Empty, Num(5000))
B_ROW_NODATE == GenBankRow(Empty, Str(ID_SUP), N_BETA, Num(700), Empty)
B_ROW_SUP == GenBankRow(DateVal(3), Str(ID_SUP), N_BETA, Num(5000), Empty)

\* rows 1 to 4 of a bank tab as the template lays it out: a title and blanks
BankTabTop == <<BankTitleRow, BankBlankRow, BankBlankRow, BankBlankRow>>

BankTabGood ==
    [readable |-> TRUE, top |-> BankTabTop, row5 |-> BankSchemaHeaders,
     data |-> <<B_ROW_MAS, B_ROW_NODATE, BankBlankRow, B_ROW_SUP>>]
BankTabDated ==
    [readable |-> TRUE, top |-> BankTabTop, row5 |-> BankSchemaHeaders,
     data |-> <<B_ROW_MAS, B_ROW_SUP>>]
BankTabLocked ==
    [readable |-> FALSE, top |-> BankTabTop, row5 |-> BankSchemaHeaders,
     data |-> <<B_ROW_SUP>>]
BankTabOther ==
    [readable |-> TRUE, top |-> BankTabTop, row5 |-> BankOtherHeaders, data |-> <<B_ROW_MAS>>]

\* a tab whose header row stands in row 4: row 5 is its first data row
B_ROW_CUS == GenBankRow(DateVal(2), Str(ID_CUS), N_ZED, Num(10000), Empty)
BankTabShifted ==
    [readable |-> TRUE,
     top |-> <<BankTitleRow, BankBlankRow, BankBlankRow, BankSchemaHeaders>>,
     row5 |-> B_ROW_CUS, data |-> <<B_ROW_CUS>>]

\* the tab of the bank workbook that BANK_SHEET_NAME names: header in row 5
BankSheetData ==
    <<BankTitleRow, BankBlankRow, BankBlankRow, BankBlankRow, BankSchemaHeaders,
      B_ROW_MAS, B_ROW_NODATE, BankBlankRow, B_ROW_SUP>>

\* the bank workbook: cannot be opened; one tab of the schema; a tab that cannot
\* be read and a tab with its header in row 4 before one of the schema; a tab
\* of another layout and an empty one
BankBooks ==
    {Workbook(FALSE, FALSE, <<>>, <<>>),
     Workbook(TRUE, TRUE, BankSheetData, <<BankTabGood>>),
     Workbook(TRUE, TRUE, BankSheetData, <<BankTabDated>>),
     Workbook(TRUE, FALSE, <<>>, <<BankTabLocked, BankTabShifted, BankTabDated>>),
     Workbook(TRUE, TRUE, <<BankSchemaHeaders>>,
              <<BankTabOther, [BankTabGood EXCEPT !.data = <<>>]>>)}

SourceBooks ==
    {[PURCHASE |-> p, SALES |-> sl, BANK |-> b] :
        p \in PurchaseBooks, sl \in SalesBooks, b \in BankBooks}

-----------------------------------------------------------------------------
(* Specification SpecFetch: one direct call of a fetcher *)

InitFetch ==
    /\ rConfig \in {c \in SourceConfigs : Truthy(c.ORG_CODE)}
    /\ rSources \in SourceBooks
    /\ fCall = "none"
    /\ fType = "BANK"
    /\ fResult = <<>>
    /\ ClassifyIdle /\ TransformIdle /\ DetectIdle /\ GenIdle /\ RefreshIdle
    /\ ParseIdle /\ SingleIdle

FetchSourceData ==
    /\ fCall = "none"
    /\ \E sourceType \in DocTypes :
          /\ fType' = sourceType
          /\ fResult' = fetchSourceData(rConfig, rSources, sourceType)
    /\ fCall' = "fetchSourceData"
    /\ UNCHANGED <<parseVars, singleVars, classifyVars, transformVars, detectVars, genVars, sourceVars, refreshVars>>

FetchBankDataAllTabs ==
    /\ fCall = "none"
    /\ fCall' = "fetchBankDataAllTabs"
    /\ fType' = "BANK"
    /\ fResult' = fetchBankDataAllTabs(rConfig, rSources)
    /\ UNCHANGED <<parseVars, singleVars, classifyVars, transformVars, detectVars, genVars, sourceVars, refreshVars>>

NextFetch == FetchSourceData \/ FetchBankDataAllTabs

SpecFetch == InitFetch /\ [][NextFetch]_vars

\* the source of the call is not there: the workbook or its tab cannot be found
SourceNotFound(sourceType) == ~rSources[sourceType].open \/ ~rSources[sourceType].tab

\* the tab has rows but none of the scanned ones is a header row
NoHeaderRow(sourceType) ==
    /\ Len(rSources[sourceType].allData) >= 2
    /\ detectHeaderRow(rSources[sourceType].allData, sourceType) = -1

\* C12: fetchSourceData always returns a result whose status is SUCCESS, ERROR
\* or SKIPPED: SKIPPED without transactions when the sheet ID is not configured;
\* ERROR with the message of the error and without transactions when the
\* workbook or the tab is not found or no header row is detected; SUCCESS with
\* rows equal to the number of transactions otherwise
C12_FetchStatus ==
    fCall = "fetchSourceData" =>
        /\ fResult.status \in {"SUCCESS", "ERROR", "SKIPPED"}
        /\ IF ~Truthy(SheetIdOf(rConfig, fType))
           THEN fResult.status = "SKIPPED" /\ fResult.data = <<>>
           ELSE IF SourceNotFound(fType) \/ NoHeaderRow(fType)
           THEN /\ fResult.status = "ERROR"
                /\ fResult.data = <<>>
                /\ fResult.error = (IF ~rSources[fType].open THEN E_NO_ACCESS
                                    ELSE IF ~rSources[fType].tab THEN E_TAB_NOT_FOUND
                                    ELSE E_NO_HEADER)
           ELSE /\ fResult.status = "SUCCESS"
                /\ fResult.rows = Len(fResult.data)
                /\ fResult.error = NULL

\* a configured purchase workbook without a header row: ERROR with the message
C12_Witness ==
    /\ fCall = "fetchSourceData"
    /\ fType = "PURCHASE"
    /\ Truthy(rConfig.PURCHASE_SHEET_ID)
    /\ rSources.PURCHASE.open /\ rSources.PURCHASE.tab
    /\ NoHeaderRow("PURCHASE")
    /\ fResult.status = "ERROR"
    /\ fResult.error = E_NO_HEADER

\* the rows fetchSourceData reads below the header row it detected
RowsBelowHeader(allData, sourceType) ==
    SubSeq(allData, detectHeaderRow(allData, sourceType) + 2, Len(allData))

\* the rows below row 5 of the bank tabs that can be read and carry the schema
RECURSIVE SchemaTabRows(_)
SchemaTabRows(tabs) ==
    IF tabs = <<>> THEN <<>>
    ELSE (IF Head(tabs).readable /\ BankTabMatches(Head(tabs).row5)
          THEN Head(tabs).data ELSE <<>>) \o SchemaTabRows(Tail(tabs))

\* the column of the party's name in the tables of the model
PartyNameColumn(sourceType) == IF sourceType = "BANK" THEN 7 ELSE 2

\* data holds one transaction for each row that has a value, in the rows' order
EmittedOnePerRow(data, rows, nameCol) ==
    \E want \in {SelectSeq(rows, HasNonEmptyCell)} :
        /\ Len(data) = Len(want)
        /\ \A i \in DOMAIN want : data[i].partyName = ToStr(Or(want[i][nameCol], Empty))

\* the part of C20 about fetchSourceData, which holds: blank rows are passed
\* over, a row without party ID, amount or date is emitted like any other
C20_RegisterRows ==
    (/\ fCall = "fetchSourceData"
     /\ fResult.status = "SUCCESS"
     /\ Len(rSources[fType].allData) >= 2)
        => EmittedOnePerRow(fResult.data,
                            RowsBelowHeader(rSources[fType].allData, fType),
                            PartyNameColumn(fType))

\* the part of C20 about the bank tabs
C20_BankTabRows ==
    (/\ fCall = "fetchBankDataAllTabs"
     /\ Truthy(rConfig.BANK_SHEET_ID)
     /\ rSources.BANK.open)
        => EmittedOnePerRow(fResult, SchemaTabRows(rSources.BANK.tabs),
                            PartyNameColumn("BANK"))

\* C20: for PURCHASE, SALES and BANK exactly one transaction is emitted, in
\* source order, for each row after the header with at least one non-empty
\* cell, and none for a row whose cells are all empty; rows with missing or
\* unparseable fields are emitted too
C20_OnePerNonEmptyRow == C20_RegisterRows /\ C20_BankTabRows

-----------------------------------------------------------------------------
(* refreshData: src/unnamed/part_006, the whole handler as one step *)

\* { rows: 0, status: 'pending' }: the entry of a source before it is fetched
SourceBlank == [rows |-> 0, status |-> "pending"]

\* { count: 0, status: 'pending' }: result.ledgers before generateAllLedgers
LedgersBlank == [count |-> 0, status |-> "pending", error |-> NULL]

\* result.x.data || []
DataOr(r) == IF "data" \in DOMAIN r THEN r.data ELSE <<>>

\* result.x.error, undefined when the entry has no such key; logRun writes ''
\* for a missing message
ErrorOrBlank(r) == IF "error" \in DOMAIN r /\ r.error # NULL THEN r.error ELSE ""

\* the entry refreshData makes of the array fetchBankDataAllTabs returned
BankResult(bankTransactions) ==
    [rows |-> Len(bankTransactions), status |-> "SUCCESS", data |-> bankTransactions]

\* a plausible slip: the ledgers are made only when no source failed
AllTransactions_AllOrNothing(p, sl, b) ==
    IF "ERROR" \in {p.status, sl.status, b.status} THEN <<>>
    ELSE DataOr(p) \o DataOr(sl) \o DataOr(b)

\* const allTransactions = [...purchase, ...sales, ...bank]
AllTransactions(p, sl, b) == DataOr(p) \o DataOr(sl) \o DataOr(b)

\* Init.logRun(source, action, rowsFetched, rowsWritten, status, duration, error)
LogEntry(source, action, rowsFetched, rowsWritten, status, errorMessage) ==
    [source |-> source, action |-> action, rowsFetched |-> rowsFetched,
     rowsWritten |-> rowsWritten, status |-> status, error |-> errorMessage]

\* the line a fetched source leaves in RUN_LOG; none when it was not fetched
FetchLog(source, r) ==
    IF r.status = "pending" THEN <<>>
    ELSE <<LogEntry(source, "Fetch", r.rows, 0, r.status, ErrorOrBlank(r))>>

A_CONFIG_ERROR == "Configuration Error"
A_COMPLETE == "Refresh Complete"

MaxRuns == 2

RefreshData ==
    /\ rRuns < MaxRuns
    /\ rRuns' = rRuns + 1
    /\ IF ~Truthy(rConfig.ORG_CODE)
       THEN /\ rResult' = [purchase |-> SourceBlank, sales |-> SourceBlank,
                           bank |-> SourceBlank]
            /\ result' = LedgersBlank
            /\ rAlert' = [title |-> A_CONFIG_ERROR, message |-> <<>>]
            /\ UNCHANGED <<rLog, transactions, ledgers, sheets, index>>
       ELSE \E p \in {IF Truthy(rConfig.PURCHASE_SHEET_ID)
                      THEN fetchSourceData(rConfig, rSources, "PURCHASE")
                      ELSE SourceBlank} :
            \E sl \in {IF Truthy(rConfig.SALES_SHEET_ID)
                       THEN fetchSourceData(rConfig, rSources, "SALES")
                       ELSE SourceBlank} :
            \E b \in {IF Truthy(rConfig.BANK_SHEET_ID)
                      THEN BankResult(fetchBankDataAllTabs(rConfig, rSources))
                      ELSE SourceBlank} :
            \E all \in {WithOid(AllTransactions(p, sl, b))} :
               /\ rResult' = [purchase |-> p, sales |-> sl, bank |-> b]
               /\ transactions' = all
               /\ IF all # <<>>
                  THEN GenerateLedgers(all)
                  ELSE /\ result' = LedgersBlank
                       /\ UNCHANGED <<ledgers, sheets, index>>
               /\ rLog' = rLog \o FetchLog("PURCHASE", p) \o FetchLog("SALES", sl)
                               \o FetchLog("BANK", b)
                               \o (IF all # <<>>
                                   THEN <<LogEntry("LEDGER", "Generate", 0, result'.count,
                                                   result'.status, ErrorOrBlank(result'))>>
                                   ELSE <<>>)
               /\ rAlert' = [title |-> A_COMPLETE,
                             message |-> <<p.rows, sl.rows, b.rows, result'.count>>]
    /\ UNCHANGED <<parseVars, singleVars, contacts, sourceVars, fetchVars, classifyVars, transformVars, detectVars>>

-----------------------------------------------------------------------------
(* Specification SpecRefresh: refreshData run again and again on one CONFIG tab
   and one set of source workbooks *)

InitRefresh ==
    /\ rConfig \in SourceConfigs
    /\ rSources \in SourceBooks
    /\ contacts \in ContactDirs
    /\ transactions = <<>>
    /\ ledgers = <<>>
    /\ sheets = <<>>
    /\ index = [placeholder |-> FALSE, rows |-> <<>>]
    /\ result = LedgersBlank
    /\ rResult = [purchase |-> SourceBlank, sales |-> SourceBlank, bank |-> SourceBlank]
    /\ rAlert = [title |-> "none", message |-> <<>>]
    /\ rLog = <<>>
    /\ rRuns = 0
    /\ ClassifyIdle /\ TransformIdle /\ DetectIdle /\ FetchIdle
    /\ ParseIdle /\ SingleIdle

NextRefresh == RefreshData

SpecRefresh == InitRefresh /\ [][NextRefresh]_vars

\* the list without the marks of identity
StripOid(txns) ==
    [i \in DOMAIN txns |-> [f \in DOMAIN txns[i] \ {"oid"} |-> txns[i][f]]]

\* the transactions a source kind holds for a run when it is configured and its
\* fetch, taken alone, succeeds
DataOfSource(kind) ==
    CASE kind = "PURCHASE" ->
            IF Truthy(rConfig.PURCHASE_SHEET_ID)
            THEN fetchSourceData(rConfig, rSources, "PURCHASE").data ELSE <<>>
      [] kind = "SALES" ->
            IF Truthy(rConfig.SALES_SHEET_ID)
            THEN fetchSourceData(rConfig, rSources, "SALES").data ELSE <<>>
      [] OTHER -> fetchBankDataAllTabs(rConfig, rSources)

\* a fetch that fails: the workbook or tab is not found, or no header row
FetchFails(sourceType) ==
    /\ Truthy(SheetIdOf(rConfig, sourceType))
    /\ SourceNotFound(sourceType) \/ NoHeaderRow(sourceType)

\* a transaction of the run's input is held by some ledger
InSomeLedger(i) ==
    \E j \in DOMAIN ledgers : \E k \in DOMAIN ledgers[j].transactions :
        ledgers[j].transactions[k].oid = i

\* C11: whichever source fails, a refresh with ORG_CODE set fetches every
\* configured source, ends with the completion alert, and generates the ledgers
\* from the transactions of all sources that succeeded: they are the input of
\* generateAllLedgers, in the order purchase, sales, bank, generation has run
\* when there is any, and after a successful generation each of them that has
\* a party ID and a category is in a ledger
C11_FailureIsContained ==
    (rRuns >= 1 /\ Truthy(rConfig.ORG_CODE)) =>
        /\ Truthy(rConfig.PURCHASE_SHEET_ID) =>
              rResult.purchase.status = (IF FetchFails("PURCHASE") THEN "ERROR" ELSE "SUCCESS")
        /\ Truthy(rConfig.SALES_SHEET_ID) =>
              rResult.sales.status = (IF FetchFails("SALES") THEN "ERROR" ELSE "SUCCESS")
        /\ Truthy(rConfig.BANK_SHEET_ID) => rResult.bank.status # "pending"
        /\ StripOid(transactions)
              = DataOfSource("PURCHASE") \o DataOfSource("SALES") \o DataOfSource("BANK")
        /\ transactions # <<>> => result.status \in {"SUCCESS", "ERROR"}
        /\ result.status = "SUCCESS" =>
              \A i \in DOMAIN transactions :
                  (transactions[i].partyId # <<>> /\ CategoryOfTxn(transactions[i]) # NULL)
                      => InSomeLedger(i)
        /\ rAlert.title = A_COMPLETE

\* the purchase workbook cannot be opened; sales and bank are fetched and their
\* transactions reach the ledgers
C11_Witness ==
    /\ rRuns = 1
    /\ rResult.purchase.status = "ERROR"
    /\ rResult.sales.status = "SUCCESS" /\ rResult.sales.rows = 2
    /\ rResult.bank.status = "SUCCESS" /\ rResult.bank.rows = 2
    /\ Len(transactions) = 4
    /\ result.status = "SUCCESS"
    /\ \A i \in DOMAIN transactions : InSomeLedger(i)

\* validateConfig's two required fields: ORG_CODE, and one source sheet ID
MandatoryMissing ==
    \/ ~Truthy(rConfig.ORG_CODE)
    \/ /\ ~Truthy(rConfig.PURCHASE_SHEET_ID)
       /\ ~Truthy(rConfig.SALES_SHEET_ID)
       /\ ~Truthy(rConfig.BANK_SHEET_ID)

\* C14: a refresh started with ORG_CODE unset or with no source sheet ID set
\* ends in a failure that is reported (not in the completion alert of a
\* successful run) and writes no party sheet and no index
C14_MissingIdsFail ==
    (rRuns >= 1 /\ MandatoryMissing) =>
        /\ rAlert.title # A_COMPLETE
        /\ sheets = <<>>
        /\ index = [placeholder |-> FALSE, rows |-> <<>>]

\* C15: when the bank workbook cannot be opened, or one of its tabs cannot be
\* read, the result of the refresh for BANK has status ERROR and a message
C15_BankFailureReported ==
    (/\ rRuns >= 1
     /\ Truthy(rConfig.ORG_CODE)
     /\ Truthy(rConfig.BANK_SHEET_ID)
     /\ \/ ~rSources.BANK.open
        \/ \E i \in DOMAIN rSources.BANK.tabs : ~rSources.BANK.tabs[i].readable)
        => /\ rResult.bank.status = "ERROR"
           /\ ErrorOrBlank(rResult.bank) # ""

\* C16: a second refresh on the same CONFIG tab, source workbooks and contact
\* directory, both runs generating without error, ends with the same
\* PartyLedgers (category, totals, transaction order) as the first and leaves
\* every party sheet and the index with the content they had after the first
C16_SecondRunSame ==
    [][(/\ rRuns >= 1 /\ rRuns' = rRuns + 1
        /\ result.status = "SUCCESS" /\ result'.status = "SUCCESS")
          => (/\ ledgers' = ledgers
              /\ sheets' = sheets
              /\ index' = index
              /\ transactions' = transactions)]_vars

\* two runs over three sources, each run writing the same four statements
C16_Witness ==
    /\ rRuns = 2
    /\ result.status = "SUCCESS"
    /\ Len(rLog) = 8
    /\ rLog[4].source = "LEDGER" /\ rLog[4].status = "SUCCESS" /\ rLog[4].rowsWritten = 4
    /\ rLog[8] = rLog[4]
    /\ Cardinality(DOMAIN sheets) = 4
    /\ Len(index.rows) = 4

-----------------------------------------------------------------------------
(* The bank tabs of a refresh and the place of their header row *)

\* all the rows of a bank tab, from row 1 down
TabRows(tab) == tab.top \o <<tab.row5>> \o tab.data

\* the row is the header row of the bank schema
IsBankHeader(row) == BankTabMatches(row)

\* the transaction of the row is part of the run's transaction set
Contributed(row) ==
    \E i \in DOMAIN transactions : StripOid(transactions)[i] = BankTabEntry(row)

\* the rows of the tab below row h that the claim counts as data rows
DataRowsBelow(tab, h) ==
    {TabRows(tab)[r] : r \in {r \in DOMAIN TabRows(tab) : r > h /\ HasNonEmptyCell(TabRows(tab)[r])}}

\* a refresh that has read the bank workbook
BankWasRead ==
    /\ rRuns >= 1
    /\ Truthy(rConfig.ORG_CODE)
    /\ Truthy(rConfig.BANK_SHEET_ID)
    /\ rSources.BANK.open

\* C21: after a refresh every readable bank tab whose header row (DATE,
\* PARTICULARS, DEBIT, CREDIT, BALANCE, L/F) stands anywhere in its first 10
\* rows has all its non-empty rows below that header in the transaction set
C21_BankHeaderByContent ==
    BankWasRead =>
        \A t \in DOMAIN rSources.BANK.tabs :
            rSources.BANK.tabs[t].readable =>
                \A h \in DOMAIN TabRows(rSources.BANK.tabs[t]) :
                    (h <= ScanLimit /\ IsBankHeader(TabRows(rSources.BANK.tabs[t])[h]))
                        => \A row \in DataRowsBelow(rSources.BANK.tabs[t], h) : Contributed(row)

\* the same for the rows that have a date, which leaves the rows out that the
\* loop passes over for their empty DATE cell: violated as well, by the tab
\* whose header stands in row 4
C21_DatedRowsBelowHeader ==
    BankWasRead =>
        \A t \in DOMAIN rSources.BANK.tabs :
            rSources.BANK.tabs[t].readable =>
                \A h \in DOMAIN TabRows(rSources.BANK.tabs[t]) :
                    (h <= ScanLimit /\ IsBankHeader(TabRows(rSources.BANK.tabs[t])[h]))
                        => \A row \in DataRowsBelow(rSources.BANK.tabs[t], h) :
                              BankRowTaken(row) => Contributed(row)

\* what does hold: the dated rows below a header that stands in row 5
C21_HeaderInRowFive ==
    BankWasRead =>
        \A t \in DOMAIN rSources.BANK.tabs :
            (/\ rSources.BANK.tabs[t].readable
             /\ IsBankHeader(rSources.BANK.tabs[t].row5))
                => \A row \in DataRowsBelow(rSources.BANK.tabs[t], 5) :
                      BankRowTaken(row) => Contributed(row)

-----------------------------------------------------------------------------
(* Specification SpecRender: PartyLedger.createPartyLedger called for one party
   on a workbook that has no sheet of that name yet, or has one from before *)

MaxLedgerRows == 12

\* the transactions of a statement, already in date order: debits only, credits
\* only, both sides in turn, or no amount at all
StatementKinds == {"debit", "credit", "turns", "blank"}

StatementTxn(i, kind) ==
    [date |-> DateVal(i), partyId |-> ID_MAS, partyName |-> N_ACME, docNo |-> NatToChars(i),
     docType |-> "BANK", voucherType |-> T_BANK, particulars |-> Str(N_X),
     debit |-> IF kind = "debit" \/ (kind = "turns" /\ i % 2 = 1) THEN 5000 ELSE 0,
     credit |-> IF kind = "credit" \/ (kind = "turns" /\ i % 2 = 0) THEN 700 ELSE 0,
     reference |-> NatToChars(i), oid |-> i]

StatementLists ==
    {[i \in 1..n |-> StatementTxn(i, kind)] : n \in 0..MaxLedgerRows, kind \in StatementKinds}

\* the party object handed to createPartyLedger
RenderParty(id, cat) ==
    [id |-> id, name |-> N_ACME, ledgerCategory |-> cat, address1 |-> <<"a">>,
     address2 |-> <<>>, gst |-> <<>>, phone |-> <<"9">>, email |-> <<>>]

\* the workbook before the call: without the sheet, or with the statement an
\* earlier call wrote for the same party from one or from MaxLedgerRows rows
EarlierWorkbooks(party) ==
    {<<>>}
      \cup {buildSheetName(party.id, party.ledgerCategory)
               :> createPartyLedger(party, Company, [i \in 1..n |-> StatementTxn(i, "debit")],
                                    party.ledgerCategory) : n \in {1, MaxLedgerRows}}

InitRender ==
    /\ transactions \in StatementLists
    /\ ledgers \in {<<RenderParty(id, cat)>> : id \in {ID_MAS, ID_SUP}, cat \in {"SU", "CU"}}
    /\ sheets \in EarlierWorkbooks(ledgers[1])
    /\ contacts = <<>>
    /\ index = [placeholder |-> FALSE, rows |-> <<>>]
    /\ result = [count |-> 0, status |-> "pending", error |-> NULL]
    /\ ClassifyIdle /\ TransformIdle /\ DetectIdle
    /\ SourceIdle /\ RefreshIdle /\ FetchIdle
    /\ ParseIdle /\ SingleIdle

\* whether the grid of the sheet has room for the statement. insertSheet gives
\* a grid larger than any statement of the model; a sheet that was cut behind
\* an earlier, shorter statement has fewer rows than the new one needs, and
\* setRowHeight on a row below the grid either extends the grid or throws
GridHasRoom(ss, sheetName, sh) ==
    IF sheetName \notin DOMAIN ss THEN {TRUE}
    ELSE IF ss[sheetName].maxRows >= sh.maxRows THEN {TRUE}
    ELSE {TRUE, FALSE}

\* the sheet a call leaves that threw below the grid: cleared, written down to
\* the last row of the grid; the transaction rows are written in one piece
\* after their row heights are set
SheetLeftBehind(old, sh, txns) ==
    [sh EXCEPT
        !.rows = [r \in {r \in DOMAIN sh.rows :
                           /\ r <= old.maxRows
                           /\ (r >= startRow /\ TransactionEndRow(txns) > old.maxRows) => FALSE}
                    |-> sh.rows[r]],
        !.maxRows = old.maxRows]

\* createPartyLedger(ss, party, company, transactions, ledgerCategory)
CreatePartyLedger ==
    /\ result.status = "pending"
    /\ \E sh \in {createPartyLedger(ledgers[1], Company, transactions,
                                     ledgers[1].ledgerCategory)} :
       \E room \in GridHasRoom(sheets, sh.sheetName, sh) :
          IF room
          THEN /\ sheets' = PutSheet(sheets, sh.sheetName, sh)
               /\ result' = [count |-> 1, status |-> "SUCCESS", error |-> NULL]
          ELSE /\ sheets' = PutSheet(sheets, sh.sheetName,
                                     SheetLeftBehind(sheets[sh.sheetName], sh, transactions))
               /\ result' = [count |-> 0, status |-> "ERROR", error |-> E_WORKSHEET]
    /\ UNCHANGED <<transactions, contacts, ledgers, index, classifyVars, transformVars,
                   detectVars, sourceVars, refreshVars, fetchVars, parseVars, singleVars>>

NextRender == CreatePartyLedger

SpecRender == InitRender /\ [][NextRender]_vars

\* the statement of the call
Rendered == sheets[buildSheetName(ledgers[1].id, ledgers[1].ledgerCategory)]

\* the number of transaction rows the layout promises for n transactions
PromisedRows(n) == IF n >= 10 THEN n ELSE 10

\* the row holds no value
RowIsBlank(sheet, r) == \A c \in 1..7 : Cell(sheet, r, c) = Empty

\* C22: a statement rendered for n transactions has max(n, 10) transaction rows
\* from row 14 on, the first n holding the transactions in order and the rest
\* no data; then two blank rows; then TOTAL, CLOSING BALANCE and GRAND TOTAL on
\* three consecutive rows, GRAND TOTAL on row 13 + max(n, 10) + 5, which is the
\* last row of the sheet
C22_StatementLayout ==
    result.status = "SUCCESS" =>
        /\ \A r \in 14..(13 + PromisedRows(Len(transactions))) :
              IF r <= 13 + Len(transactions)
              THEN /\ r \in DOMAIN Rendered.rows
                   /\ Rendered.rows[r] = DataRowOf(transactions[r - 13])
              ELSE RowIsBlank(Rendered, r)
        /\ RowIsBlank(Rendered, 13 + PromisedRows(Len(transactions)) + 1)
        /\ RowIsBlank(Rendered, 13 + PromisedRows(Len(transactions)) + 2)
        /\ Cell(Rendered, 13 + PromisedRows(Len(transactions)) + 3, 2) = Str(T_TOTAL)
        /\ Cell(Rendered, 13 + PromisedRows(Len(transactions)) + 4, 2) = Str(T_CLOSING_BALANCE)
        /\ Cell(Rendered, 13 + PromisedRows(Len(transactions)) + 5, 2) = Str(T_GRAND_TOTAL)
        /\ \A r \in DOMAIN Rendered.rows : r <= 13 + PromisedRows(Len(transactions)) + 5
        /\ Rendered.maxRows = 13 + PromisedRows(Len(transactions)) + 5

\* three transactions on a new sheet: rows 17 to 23 blank, GRAND TOTAL on row 28
C22_WitnessShort ==
    /\ result.status = "SUCCESS"
    /\ Len(transactions) = 3
    /\ Rendered.rows[16] = DataRowOf(transactions[3])
    /\ RowIsBlank(Rendered, 17) /\ RowIsBlank(Rendered, 23)
    /\ Cell(Rendered, 28, 2) = Str(T_GRAND_TOTAL)
    /\ Rendered.maxRows = 28

\* twelve transactions: twelve transaction rows, GRAND TOTAL on row 30, the
\* last row of the sheet
C22_Witness ==
    /\ result.status = "SUCCESS"
    /\ Len(transactions) = 12
    /\ Rendered.rows[25] = DataRowOf(transactions[12])
    /\ Cell(Rendered, 30, 2) = Str(T_GRAND_TOTAL)
    /\ Rendered.maxRows = 30

-----------------------------------------------------------------------------
(* The Ledger Master index after a generation *)

\* the text the index shows for a category
CategoryLabel(cat) == <<"[">> \o CategoryChars(cat) \o <<"]">>

\* the rows of the index that stand for a ledger
IndexRowsOf(l) ==
    {i \in DOMAIN index.rows :
        /\ index.rows[i].id = l.id
        /\ index.rows[i].category = CategoryLabel(l.ledgerCategory)}

-----------------------------------------------------------------------------
(* Specification SpecParse: parseNumericValue called on one cell value *)

\* the whole parts and the fractions of the amounts written into cells, the
\* fractions as text and in hundredths
ParseWholes == {0, 7, 12, 305, 1500, 200000}
ParseFractions ==
    {[text |-> <<>>, hundredths |-> 0],
     [text |-> <<".", "5">>, hundredths |-> 50],
     [text |-> <<".", "0", "5">>, hundredths |-> 5],
     [text |-> <<".", "0", "0">>, hundredths |-> 0]}

\* what stands before the digits: nothing, a currency symbol, with blanks
ParsePrefixes == {<<>>, <<"RUPEE">>, <<"$">>, <<"RUPEE", " ">>, <<" ", "$", " ">>}

\* the digits with a comma behind each position of gaps
RECURSIVE WithCommas(_, _, _)
WithCommas(ds, gaps, i) ==
    IF i > Len(ds) THEN <<>>
    ELSE <<ds[i]>> \o (IF i \in gaps THEN <<",">> ELSE <<>>) \o WithCommas(ds, gaps, i + 1)

\* every way of grouping the digits of a whole number with commas
GroupedTexts(k) ==
    {WithCommas(NatToChars(k), gaps, 1) : gaps \in SUBSET (1..(Len(NatToChars(k)) - 1))}

\* a cell holding a decimal text, with the number it stands for in hundredths
DecimalCells ==
    {[cell |-> Str(pre \o (IF neg THEN <<"-">> ELSE <<>>) \o kg[2] \o fr.text \o post),
      meant |-> [decimal |-> TRUE,
                 v |-> (IF neg THEN -1 ELSE 1) * (kg[1] * 100 + fr.hundredths)]] :
        pre \in ParsePrefixes, neg \in BOOLEAN,
        kg \in UNION {{<<k, g>> : g \in GroupedTexts(k)} : k \in ParseWholes},
        fr \in ParseFractions, post \in {<<>>, <<" ">>}}

\* cells that hold a number already
NumberCells == {[cell |-> Num(x), meant |-> [decimal |-> TRUE, v |-> x]] : x \in {0, 50000, -5000, 5}}

\* cells without an amount: null, empty, blanks, a word, a lone symbol or sign,
\* a Date
NoAmountCells ==
    {[cell |-> c, meant |-> [decimal |-> FALSE, v |-> 0]] :
        c \in {Null, Empty, Str(<<" ">>), Str(S_NA), Str(<<"a", "b", "c">>), Str(<<"RUPEE">>),
                Str(<<"-">>), Str(<<",">>), Str(<<".">>), DateVal(1)}}

ParseCases == DecimalCells \cup NumberCells \cup NoAmountCells

InitParse ==
    /\ \E c \in ParseCases : pVal = c.cell /\ pMeant = c.meant
    /\ pResult = [done |-> FALSE, value |-> 0]
    /\ ClassifyIdle /\ TransformIdle /\ DetectIdle /\ GenIdle
    /\ SourceIdle /\ RefreshIdle /\ FetchIdle /\ SingleIdle

\* parseNumericValue(val)
ParseNumericValue ==
    /\ ~pResult.done
    /\ pResult' = [done |-> TRUE, value |-> parseNumericValue(pVal)]
    /\ UNCHANGED <<pVal, pMeant, classifyVars, transformVars, detectVars, genVars,
                   sourceVars, refreshVars, fetchVars, singleVars>>

NextParse == ParseNumericValue

SpecParse == InitParse /\ [][NextParse]_vars

\* C24: for a decimal text grouped with commas at any places, with or without
\* a currency symbol (the rupee sign or $), a sign and blanks, the parser
\* returns the number the text stands for; for a number it returns the number;
\* for null, an empty or blank text, a word, a lone symbol and a Date it
\* returns 0
C24_ParseExact ==
    pResult.done =>
        IF pMeant.decimal THEN pResult.value = pMeant.v ELSE pResult.value = 0

\* the rupee sign before 2,00,000.00 gives 200000
C24_Witness ==
    /\ pResult.done
    /\ pVal = Str(S_200000)
    /\ pMeant.decimal
    /\ pResult.value = 20000000

-----------------------------------------------------------------------------
(* The amounts of the transactions that reach the ledgers *)

\* C25: every transaction that generateAllLedgers has filed in a ledger has a
\* debit of 0 or more and a credit of 0 or more
C25_AmountsNonNegative ==
    Finished =>
        \A j \in DOMAIN ledgers : \A k \in DOMAIN ledgers[j].transactions :
            /\ ledgers[j].transactions[k].debit >= 0
            /\ ledgers[j].transactions[k].credit >= 0

\* what does hold: an amount is negative only where the source cell is
C25_NegativeOnlyFromSource ==
    tEntry # <<>> =>
        /\ tEntry.debit < 0 => \E i \in DOMAIN tRow : parseNumericValue(tRow[i]) = tEntry.debit
        /\ tEntry.credit < 0 => \E i \in DOMAIN tRow : parseNumericValue(tRow[i]) = tEntry.credit

-----------------------------------------------------------------------------
(* The fallback of the header detection *)

\* a cell equal to the anchor: L/F once the cell is trimmed and upper-cased
IsAnchorCell(cell) == ToUpperCase(Trim(ToStr(cell))) = H_LF

\* the rows among the first 10 that hold an anchor cell
AnchorRows(allData) ==
    {i \in DOMAIN allData : i <= 10 /\ \E j \in DOMAIN allData[i] : IsAnchorCell(allData[i][j])}

NoneQualifies(allData, sourceType) ==
    \A i \in DOMAIN allData : i <= 10 => ~Qualifies(allData[i], sourceType)

\* C26: when no row among the first 10 qualifies as a header, detection returns
\* the index of the first row among the first 10 that holds a cell equal to
\* L/F, and -1 when there is none; the index returned is never 10 or more,
\* whatever stands further down
C26_FallbackToAnchor ==
    dResult.done =>
        /\ dResult.idx < 10
        /\ NoneQualifies(dData, dSourceType) =>
              IF AnchorRows(dData) = {} THEN dResult.idx = -1
              ELSE /\ dResult.idx + 1 \in AnchorRows(dData)
                   /\ \A i \in AnchorRows(dData) : dResult.idx + 1 <= i

\* a PURCHASE table of 12 rows: " l/f " alone in row 3, the full header in row
\* 12; detection returned index 2
C26_Witness ==
    /\ dResult.done
    /\ dSourceType = "PURCHASE"
    /\ Len(dData) = MaxRows
    /\ dData[3] = PaddedLFOnlyRow
    /\ FullyMatches(dData[MaxRows], "PURCHASE")
    /\ NoneQualifies(dData, "PURCHASE")
    /\ dResult.idx = 2

\* the full header in row 12 and "L / F" alone before it: nothing is found
C26_WitnessNotFound ==
    /\ dResult.done
    /\ Len(dData) = MaxRows
    /\ dData[3] = SpacedLFOnlyRow
    /\ FullyMatches(dData[MaxRows], dSourceType)
    /\ dResult.idx = -1

-----------------------------------------------------------------------------
(* The three totals rows of a statement, column by column *)

\* the figure of a cell, an empty cell counting as 0
Figure(cell) == IF cell.t = "num" THEN cell.n ELSE 0

ColumnAddsUp(sh, c) ==
    Figure(Cell(sh, RowLabelled(sh, T_GRAND_TOTAL), c))
        = Figure(Cell(sh, RowLabelled(sh, T_TOTAL), c))
          + Figure(Cell(sh, RowLabelled(sh, T_CLOSING_BALANCE), c))

\* C27: on every statement written, under DEBIT and under CREDIT alike, the
\* GRAND TOTAL figure is the TOTAL figure plus the CLOSING BALANCE figure of
\* that column, an empty cell counting as 0
C27_ColumnsAddUp ==
    Finished =>
        \A l \in RenderedLedgers : ColumnAddsUp(StatementOf(l), 5) /\ ColumnAddsUp(StatementOf(l), 6)

\* what does hold: the closing balance stands in the column of the larger
\* total, so a column adds up exactly when the two totals are equal
C27_AddsUpOnlyWhenEqual ==
    Finished =>
        \A l \in RenderedLedgers :
            /\ ColumnAddsUp(StatementOf(l), 5) <=> l.totalDebit = l.totalCredit
            /\ ColumnAddsUp(StatementOf(l), 6) <=> l.totalDebit = l.totalCredit

-----------------------------------------------------------------------------
(* Specification SpecRerun: refreshData run again after the source workbooks
   were edited *)

\* the workbooks as their owners may leave them between two runs: the purchase
\* register with or without its row, the sales register with or without its
\* rows, the bank workbook with or without a readable tab
RerunBooks ==
    {[PURCHASE |-> p, SALES |-> sl, BANK |-> b] :
        p \in {Workbook(TRUE, TRUE, <<H_INVOICE_DATE_COL>>, <<>>),
                Workbook(TRUE, TRUE, <<RegTitleRow, H_INVOICE_DATE_COL, P_ROW_MAS>>, <<>>)},
        sl \in {Workbook(TRUE, TRUE, <<RegTitleRow, H_SALES_COLS>>, <<>>),
                 Workbook(TRUE, TRUE, <<H_SALES_COLS, S_ROW_MAS, RegBlankRow, S_ROW_CON>>, <<>>)},
        b \in {Workbook(TRUE, FALSE, <<>>, <<>>),
                Workbook(TRUE, TRUE, BankSheetData, <<BankTabGood>>)}}

InitRerun ==
    /\ rConfig = ConfigOf(Str(ORG_CG), Str(ID_WORKBOOK), Str(ID_WORKBOOK), Str(ID_WORKBOOK))
    /\ rSources \in RerunBooks
    /\ contacts = <<>>
    /\ transactions = <<>>
    /\ ledgers = <<>>
    /\ sheets = <<>>
    /\ index = [placeholder |-> FALSE, rows |-> <<>>]
    /\ result = LedgersBlank
    /\ rResult = [purchase |-> SourceBlank, sales |-> SourceBlank, bank |-> SourceBlank]
    /\ rAlert = [title |-> "none", message |-> <<>>]
    /\ rLog = <<>>
    /\ rRuns = 0
    /\ ClassifyIdle /\ TransformIdle /\ DetectIdle /\ FetchIdle
    /\ ParseIdle /\ SingleIdle

\* between two runs the registers are edited; openById and getValues read
\* whatever the workbooks hold when the next run comes
EditSources ==
    /\ rRuns < MaxRuns
    /\ \E books \in RerunBooks : books # rSources /\ rSources' = books
    /\ UNCHANGED <<rConfig, genVars, refreshVars, fetchVars, classifyVars, transformVars,
                   detectVars, parseVars, singleVars>>

NextRerun == RefreshData \/ EditSources

SpecRerun == InitRerun /\ [][NextRerun]_vars

\* the sheet names of the ledgers of the latest generation
LatestSheetNames ==
    {buildSheetName(ledgers[j].id, ledgers[j].ledgerCategory) : j \in DOMAIN ledgers}

\* C28: after any sequence of refreshes, once a refresh has generated ledgers
\* successfully, every party sheet of the workbook is the statement of a ledger
\* of that latest run: none remains for a (party ID, category) pair without
\* transactions in the current sources
C28_NoStaleStatements ==
    (rRuns > 0 /\ result.status = "SUCCESS") => DOMAIN sheets \subseteq LatestSheetNames

\* what does hold: a run only adds or rewrites party sheets
C28_SheetsOnlyAdded == [][DOMAIN sheets \subseteq DOMAIN sheets']_vars

\* and every ledger of the latest successful run has its sheet
C28_LatestAllPresent ==
    (rRuns > 0 /\ result.status = "SUCCESS") => LatestSheetNames \subseteq DOMAIN sheets

-----------------------------------------------------------------------------
(* The sheet names of the ledgers of one generation *)

SheetNameOf(l) == buildSheetName(l.id, l.ledgerCategory)

\* Specification SpecCollide: generateAllLedgers over register rows whose L/F
\* cells were typed with a blank behind or before the ID, or with a slash for a
\* hyphen
ID_SUP_BLANK == ID_SUP \o <<" ">>
ID_SUP_SLASH == <<"C", "G", "/", "S", "U", "P", "-", "1">>
ID_MAS_BLANK == <<" ">> \o ID_MAS

CollidePurchaseRows ==
    {<<Str(ID_SUP), Str(N_BETA), Num(800), Num(5400), DateVal(4)>>,
     <<Str(ID_SUP_BLANK), Str(N_BETA), Num(801), Num(1200), DateVal(5)>>,
     <<Str(ID_SUP_SLASH), Str(N_ZED), Num(802), Num(700), DateVal(6)>>}

CollideSalesRows ==
    {<<Str(ID_MAS_LC), Str(N_ACME), Num(900), Num(3000), DateVal(1)>>,
     <<Str(ID_MAS_BLANK), Str(N_ACME), Num(901), Num(2500), DateVal(2)>>}

CollidePurchases ==
    {transformRow(r, H_INVOICE_DATE_COL, getColumnMapping(DefaultConfig, "PURCHASE"), "PURCHASE") :
        r \in CollidePurchaseRows}

CollideSales ==
    {transformRow(r, H_SALES_COLS, getColumnMapping(DefaultConfig, "SALES"), "SALES") :
        r \in CollideSalesRows}

CollideInputs ==
    {WithOid(x[1] \o x[2]) :
        x \in UNION {[1..k[1] -> CollidePurchases] \X [1..k[2] -> CollideSales] :
                       k \in {n \in (0..MaxTxns) \X (0..MaxTxns) : n[1] + n[2] <= MaxTxns}}}

InitCollide ==
    /\ transactions \in CollideInputs
    /\ contacts = <<>>
    /\ ledgers = <<>>
    /\ sheets = <<>>
    /\ index = [placeholder |-> FALSE, rows |-> <<>>]
    /\ result = [count |-> 0, status |-> "pending", error |-> NULL]
    /\ ClassifyIdle /\ TransformIdle /\ DetectIdle
    /\ SourceIdle /\ RefreshIdle /\ FetchIdle
    /\ ParseIdle /\ SingleIdle

NextCollide == GenerateAllLedgers

SpecCollide == InitCollide /\ [][NextCollide]_vars

\* C29: in one generation run two distinct ledgers (distinct party ID and
\* category keys) are never rendered to the same sheet name: every ledger has a
\* sheet of its own
C29_SheetNamesDistinct ==
    result.status = "SUCCESS" =>
        /\ \A i, j \in DOMAIN ledgers :
              i # j => SheetNameOf(ledgers[i]) # SheetNameOf(ledgers[j])
        /\ Cardinality(DOMAIN sheets) = Len(ledgers)

\* what does hold: the keys of the ledgers are distinct, and two ledgers share
\* a sheet name only when their IDs differ in outer white space or in the
\* characters the sheet name replaces
C29_KeysDistinct ==
    result.status = "SUCCESS" =>
        \A i, j \in DOMAIN ledgers :
            i # j =>
                /\ LedgerKey(ledgers[i].id, ledgers[i].ledgerCategory)
                      # LedgerKey(ledgers[j].id, ledgers[j].ledgerCategory)
                /\ SheetNameOf(ledgers[i]) = SheetNameOf(ledgers[j])
                      => /\ ledgers[i].id # ledgers[j].id
                         /\ ledgers[i].ledgerCategory = ledgers[j].ledgerCategory

-----------------------------------------------------------------------------
(* createSingleLedger: src/unnamed/part_006, the prompt and the handler as one
   step *)

\* the first row of the contacts tab whose SL reads partyId, 0 when none
RECURSIVE FirstContactRow(_, _, _, _)
FirstContactRow(data, headers, partyId, i) ==
    IF i > Len(data) THEN 0
    ELSE IF ContactId(data[i], headers) = partyId THEN i
    ELSE FirstContactRow(data, headers, partyId, i + 1)

\* the null that fetchPartyFromContacts returns: an object without id
NoParty == [found |-> FALSE]
IsParty(partyInfo) == "id" \in DOMAIN partyInfo

\* fetchPartyFromContacts(config, partyId): the party object, or null when the
\* workbook is not configured, cannot be opened, lacks the tab, holds no row
\* under the header, or has no row of that ID
fetchPartyFromContacts(config, book, partyId) ==
    IF ~Truthy(config.CONTACTS_SHEET_ID) THEN NoParty
    ELSE IF ~book.open THEN NoParty
    ELSE IF ~book.tab THEN NoParty
    ELSE IF Len(book.allData) < 2 THEN NoParty
    ELSE CHOOSE r \in
            {IF i = 0 THEN NoParty
             ELSE [id |-> partyId] @@ ContactRecord(book.allData[i], book.allData[1]) :
                i \in {FirstContactRow(book.allData, book.allData[1], partyId, 2)}} : TRUE

\* data.filter(txn => String(txn.partyId).toUpperCase() === partyId)
RECURSIVE OfParty(_, _)
OfParty(txns, partyId) ==
    IF txns = <<>> THEN <<>>
    ELSE IF ToUpperCase(Head(txns).partyId) = partyId
    THEN <<Head(txns)>> \o OfParty(Tail(txns), partyId)
    ELSE OfParty(Tail(txns), partyId)

\* fetchTransactionsForParty(config, partyId): the party's rows of the three
\* sources, sorted by date
fetchTransactionsForParty(config, sources, partyId) ==
    SortByDate(
        (IF Truthy(config.PURCHASE_SHEET_ID)
         THEN OfParty(DataOr(fetchSourceData(config, sources, "PURCHASE")), partyId)
         ELSE <<>>)
        \o (IF Truthy(config.SALES_SHEET_ID)
            THEN OfParty(DataOr(fetchSourceData(config, sources, "SALES")), partyId)
            ELSE <<>>)
        \o (IF Truthy(config.BANK_SHEET_ID)
            THEN OfParty(fetchBankDataAllTabs(config, sources), partyId)
            ELSE <<>>))

\* let ledgerCategory = 'CU'; if (partyId.includes('-SUP-')) ledgerCategory = 'SU'
SingleCategory(partyId) == IF Includes(partyId, TOK_SUP) THEN "SU" ELSE "CU"

A_ERROR == "Error"
A_CREATED == "Ledger Created"
E_EMPTY_ID == "Party ID cannot be empty."
E_NOT_IN_CONTACTS == "not found in Contacts sheet."

\* createSingleLedgerPrompt with OK pressed, then createSingleLedger(partyId);
\* fail is the worksheet service refusing the statement, which ends in the
\* catch block
CreateSingleLedger ==
    /\ rAlert.title = "none"
    /\ \E partyId \in {ToUpperCase(Trim(sPartyId))} :
          IF partyId = <<>>
          THEN /\ rAlert' = [title |-> A_ERROR, message |-> E_EMPTY_ID]
               /\ UNCHANGED <<transactions, sheets, result, rLog>>
          ELSE \E partyInfo \in {fetchPartyFromContacts(rConfig, rSources.CONTACTS, partyId)} :
               IF ~IsParty(partyInfo)
               THEN /\ rAlert' = [title |-> A_ERROR, message |-> E_NOT_IN_CONTACTS]
                    /\ UNCHANGED <<transactions, sheets, result, rLog>>
               ELSE \E txns \in {WithOid(fetchTransactionsForParty(rConfig, rSources, partyId))} :
                    \E ledgerCategory \in {SingleCategory(partyId)} :
                    \E sh \in {createPartyLedger(partyInfo, Company, txns, ledgerCategory)} :
                    \E fail \in BOOLEAN :
                       /\ transactions' = txns
                       /\ IF ~fail
                          THEN /\ sheets' = PutSheet(sheets, sh.sheetName, sh)
                               /\ result' = [count |-> 1, status |-> "SUCCESS", error |-> NULL]
                               /\ rAlert' = [title |-> A_CREATED,
                                             message |-> <<partyId, partyInfo.name,
                                                           ledgerCategory, Len(txns)>>]
                               /\ rLog' = Append(rLog, LogEntry("LEDGER", "Create Single", 0, 1,
                                                                "SUCCESS", ""))
                          ELSE /\ sheets' = sheets
                               /\ result' = [count |-> 0, status |-> "ERROR",
                                             error |-> E_WORKSHEET]
                               /\ rAlert' = [title |-> A_ERROR, message |-> E_WORKSHEET]
                               /\ rLog' = Append(rLog, LogEntry("LEDGER", "Create Single", 0, 0,
                                                                "ERROR", E_WORKSHEET))
    /\ UNCHANGED <<contacts, ledgers, index, sourceVars, rResult, rRuns, fetchVars,
                   classifyVars, transformVars, detectVars, parseVars, singleVars>>

-----------------------------------------------------------------------------
(* Specification SpecSingle: one ledger made from the menu for the party ID
   entered at the prompt *)

SingleContactBooks ==
    {[open |-> FALSE, tab |-> FALSE, allData |-> <<>>],
     [open |-> TRUE, tab |-> TRUE,
      allData |-> <<ContactHeaders>> \o ContactRows
                  \o <<<<Str(ID_SUP), Str(N_BETA), Empty, Empty, Empty, Empty, Empty, Empty,
                         Empty>>>>]}

\* what is typed at the prompt: an ID in lower case with a blank behind, IDs as
\* they stand in the registers, an ID of no contact, and blanks only
PromptTexts == {ID_MAS_LC \o <<" ">>, ID_SUP, ID_MAS_CON, ID_CUS, <<" ">>}

InitSingle ==
    /\ sPartyId \in PromptTexts
    /\ rConfig = [CONTACTS_SHEET_ID |-> Str(<<"1", "b">>)]
                    @@ ConfigOf(Str(ORG_CG), Str(ID_WORKBOOK), Str(ID_WORKBOOK), Str(ID_WORKBOOK))
    /\ \E books \in RerunBooks, c \in SingleContactBooks : rSources = [CONTACTS |-> c] @@ books
    /\ contacts = <<>>
    /\ transactions = <<>>
    /\ ledgers = <<>>
    /\ sheets = <<>>
    /\ index = [placeholder |-> FALSE, rows |-> <<>>]
    /\ result = LedgersBlank
    /\ rResult = [purchase |-> SourceBlank, sales |-> SourceBlank, bank |-> SourceBlank]
    /\ rAlert = [title |-> "none", message |-> <<>>]
    /\ rLog = <<>>
    /\ rRuns = 0
    /\ pVal = Null /\ pMeant = <<>> /\ pResult = <<>>
    /\ ClassifyIdle /\ TransformIdle /\ DetectIdle /\ FetchIdle

NextSingle == CreateSingleLedger

SpecSingle == InitSingle /\ [][NextSingle]_vars

\* the statement createSingleLedger has written
SingleDone == rAlert.title = A_CREATED
SingleSheet == sheets[buildSheetName(ToUpperCase(Trim(sPartyId)), SingleCategory(ToUpperCase(Trim(sPartyId))))]

\* the category the classifier gives a transaction in a full generation
ClassifierCategory(txn) ==
    determineLedgerCategory(ToUpperCase(txn.partyId), txn.docType, txn)

\* C30: the sheet createSingleLedger writes has the category the classifier
\* assigns to the transactions it contains; it contains no transaction that the
\* classifier routes to the party's other category or leaves out (null)
C30_SingleAgreesWithClassifier ==
    SingleDone =>
        \A i \in DOMAIN transactions :
            ClassifierCategory(transactions[i]) = SingleSheet.ledgerCategory

\* what does hold: the sheet carries every row of the party ID entered, from
\* all three sources, and its category follows the token -SUP- of the ID alone
C30_AllRowsOfTheId ==
    SingleDone =>
        /\ SingleSheet.rowCount = Len(transactions)
        /\ \A i \in DOMAIN transactions :
              ToUpperCase(transactions[i].partyId) = ToUpperCase(Trim(sPartyId))
        /\ SingleSheet.ledgerCategory = "SU" <=> Includes(ToUpperCase(Trim(sPartyId)), TOK_SUP)

=============================================================================
